---- MODULE Spec2Model ----
(***************************************************************************)
(* Model of the ProtoMesh lock arbitration engine                          *)
(* (src/src/protomesh/core/lock_manager.py).                               *)
(*                                                                         *)
(* The engine keeps no state of its own: everything lives in a Redis       *)
(* store.  The model keeps the store as three maps (string keys, hashes,   *)
(* sorted sets), each from the key text the code builds to the value, and  *)
(* one action per engine call; a call is one Lua script, hence one step.   *)
(* The status check alone is two reads, hence two steps.                   *)
(* A script is an operator from the store to the store it leaves, the      *)
(* reply it returns and the messages it publishes; the Python wrapper      *)
(* turns the reply into the result the caller gets.                        *)
(* Keys are real strings built by concatenation as the code builds them.   *)
(*                                                                         *)
(* Time: every key with a TTL carries the number of time units it has      *)
(* left; Tick lets one unit pass and removes the keys that reach zero, so  *)
(* keys given the same TTL in one script expire in the same step.          *)
(***************************************************************************)
EXTENDS Integers, Sequences, FiniteSets, TLC

VARIABLES
    strs,            \* string keys: key |-> [v |-> value, ttl |-> units left]
    hashes,          \* lock_meta:* hashes: key |-> [lock_key, agent_id, lock_id, resource_type, resource_id, ttl]
    zsets,           \* sorted sets: key |-> set of [m |-> member, s |-> score]; an empty set is no key
    lock_id_counter, \* the integer key 'lock_id_counter' (INCR, no TTL)
    minted,          \* number of uuid4 lock ids handed out so far
    grants,          \* history: the grants issued and not yet ended
    requests,        \* history: the requests waiting, with the priority they asked
    pending,         \* history: the lock id of the last `queued` answer to each waiter
    checking,        \* the status check in progress: the metadata it read, or NotChecking
    waiter           \* the SDK client inside acquire_lock(wait=True), or NoWaiter

vars == <<strs, hashes, zsets, lock_id_counter, minted, grants, requests, pending, checking, waiter>>

-----------------------------------------------------------------------------
(* Bounds of the model *)

\* uuid4 lock ids the engine may mint in one behaviour
MaxLockIds == 3
\* the same for two agents, where stale lock ids come up
MaxLockIdsPair == 4
\* the same for two agents, where a stale lock id is released against a new holder
MaxLockIdsDeep == 6
\* the same for two resources
MaxLockIdsKeys == 3
\* the same for two agents with status checks and cleanups going on
MaxLockIdsAdmin == 3
\* the same for two resources with the delimiter in their names
MaxLockIdsColon == 3
\* the same with an SDK client waiting
MaxLockIdsSdk == 3
\* the same for the three agents whose queue positions are compared
MaxLockIdsRank == 3
MaxLockIdsDrain == 4

-----------------------------------------------------------------------------
(* Program constants.  Lifetimes are in model time units; the three        *)
(* lifetimes of the code keep their order (60 s < 300 s < 3600 s).         *)

\* LockManager(default_ttl=300)
DefaultTTL == 300 \div 150
\* 'EX', 3600 : the pending lock id of a queued agent
QueuedTTL == 3600 \div 1200
\* 'EX', 60 : the cancel flag
CancelTTL == 60 \div 60
\* local max_retries = 10
max_retries == 10

-----------------------------------------------------------------------------
(* Inputs *)

\* agent ids; "a" < "ab" < "b" in byte order
Agents == {"a", "ab", "b"}
\* two of the agents
AgentsPair == {"a", "b"}
\* ProtoMeshClient(api_url, agent_id)
SdkAgent == "a"
\* the agents posting to the HTTP endpoints beside the SDK client: one whose id
\* begins like the client's followed by the delimiter of the payload, and another
AgentsDirect == {"a:b", "b"}
AgentsSdk == AgentsDirect \cup {SdkAgent}
\* resources (resource_type, resource_id)
Resources == {<<"customer", "123">>}
\* two resources whose types differ around the text "lock"
ResourcesKeys == {<<"block", "1">>, <<"bqueue", "1">>}
\* two resources whose type or id contains the delimiter of the keys
ResourcesColon == {<<"a:b", "c">>, <<"a", "b:c">>}
\* priority: int = 5
DefaultPriority == 5
\* priority argument
Priorities == {DefaultPriority, 10}
\* ttl argument; 0 stands for None (and for 0: `ttl or self.default_ttl`)
TTLArgs == {0, 1}
\* additional_ttl argument of extend_lock
ExtendArgs == {1, DefaultTTL}
\* agent_id argument of release_lock / extend_lock: "" stands for None
NoAgent == ""

-----------------------------------------------------------------------------
(* Strings *)

\* the characters of the ids, in byte order
Alphabet == "0123456789:_abcdefghijklmnopqrstuvwxyz"

CharCode(c) == CHOOSE i \in 1..Len(Alphabet) : SubSeq(Alphabet, i, i) = c

\* byte-wise lexicographic order, the order of members of equal score in a sorted set
RECURSIVE StrLess(_, _)
StrLess(s, t) ==
    IF Len(t) = 0 THEN FALSE
    ELSE IF Len(s) = 0 THEN TRUE
    ELSE LET a == CharCode(SubSeq(s, 1, 1))
             b == CharCode(SubSeq(t, 1, 1))
         IN  IF a # b THEN a < b
             ELSE StrLess(SubSeq(s, 2, Len(s)), SubSeq(t, 2, Len(t)))

\* Lua string.gsub(s, pat, rep) for a pattern without magic characters:
\* every occurrence, left to right, not overlapping
RECURSIVE gsub(_, _, _)
gsub(s, pat, rep) ==
    IF Len(s) < Len(pat) THEN s
    ELSE IF SubSeq(s, 1, Len(pat)) = pat
         THEN rep \o gsub(SubSeq(s, Len(pat) + 1, Len(s)), pat, rep)
         ELSE SubSeq(s, 1, 1) \o gsub(SubSeq(s, 2, Len(s)), pat, rep)

\* Python `pat in s`
RECURSIVE Contains(_, _)
Contains(s, pat) ==
    IF Len(s) < Len(pat) THEN FALSE
    ELSE SubSeq(s, 1, Len(pat)) = pat \/ Contains(SubSeq(s, 2, Len(s)), pat)

-----------------------------------------------------------------------------
(* Key layout *)

LockKey(T, R) == "lock:" \o T \o ":" \o R
QueueKey(T, R) == "queue:" \o T \o ":" \o R
AgentLockKey(T, R, A) == "agent_lock:" \o T \o ":" \o R \o ":" \o A
CancelKey(T, R, A) == "cancel:" \o T \o ":" \o R \o ":" \o A
MetaKey(L) == "lock_meta:" \o L
\* release and cleanup derive the queue key from the lock key
QueueKeyOfLockKey(lock_key) == gsub(lock_key, "lock:", "queue:")
GrantChannel(lock_key) == "lock_granted:" \o lock_key

\* str(uuid.uuid4()): the n-th id minted
Uuid(n) == "u" \o ToString(n)
\* "fallback_" .. tostring(counter)
FallbackId(n) == "fallback_" \o ToString(n)

-----------------------------------------------------------------------------
(* Store commands *)

Has(m, k) == k \in DOMAIN m
Put(m, k, v) == [x \in (DOMAIN m) \cup {k} |-> IF x = k THEN v ELSE m[x]]
Del(m, k) == [x \in (DOMAIN m) \ {k} |-> m[x]]
\* DEL of each key of the set K
DelAll(m, K) == [x \in (DOMAIN m) \ K |-> m[x]]
\* the keys of m a SCAN with MATCH prefix* returns
Scan(m, prefix) ==
    {k \in DOMAIN m : Len(k) >= Len(prefix) /\ SubSeq(k, 1, Len(prefix)) = prefix}

\* GET: the value, or "" for nil
Get(s, k) == IF Has(s, k) THEN s[k].v ELSE ""
\* SET key value EX ttl
SetEx(s, k, v, ttl) == Put(s, k, [v |-> v, ttl |-> ttl])
\* EXPIRE key ttl: no effect on a missing key
Expire(m, k, ttl) == IF Has(m, k) THEN Put(m, k, [m[k] EXCEPT !.ttl = ttl]) ELSE m

\* sorted set order: by score, then by member bytes
Before(x, y) == x.s < y.s \/ (x.s = y.s /\ StrLess(x.m, y.m))
ZSet(z, k) == IF Has(z, k) THEN z[k] ELSE {}
ZMembers(z, k) == {x.m : x \in ZSet(z, k)}
ZEntry(z, k, m) == CHOOSE x \in ZSet(z, k) : x.m = m
\* ZRANK: zero-based
ZRank(z, k, m) == Cardinality({y \in ZSet(z, k) : Before(y, ZEntry(z, k, m))})
ZMin(z, k) == CHOOSE x \in ZSet(z, k) : \A y \in ZSet(z, k) \ {x} : Before(x, y)
ZStore(z, k, set) == IF set = {} THEN Del(z, k) ELSE Put(z, k, set)
\* ZADD of a member (a member already there gets the new score)
ZAdd(z, k, score, m) ==
    ZStore(z, k, {x \in ZSet(z, k) : x.m # m} \cup {[m |-> m, s |-> score]})
ZRem(z, k, m) == ZStore(z, k, {x \in ZSet(z, k) : x.m # m})

-----------------------------------------------------------------------------
(* The store a script runs on and what it leaves *)

\* no status check is between its two reads
\* no SDK client is inside acquire_lock(wait=True)
NoWaiter == [pc |-> "idle"]

NotChecking == [lock_key |-> "", agent_id |-> "", lock_id |-> ""]

\* a store map with no key
Empty == [k \in {} |-> 0]

Init ==
    /\ strs = Empty
    /\ hashes = Empty
    /\ zsets = Empty
    /\ lock_id_counter = 0
    /\ minted = 0
    /\ grants = {}
    /\ requests = {}
    /\ pending = {}
    /\ checking = NotChecking
    /\ waiter = NoWaiter

\* what a script leaves: the store, its reply (a Lua table) and what it published
Out(s, h, z, c, ret, pub) ==
    [strs |-> s, hashes |-> h, zsets |-> z, counter |-> c, ret |-> ret, pub |-> pub]

\* a reply that leaves the store st as it is
Reply(st, ret) == Out(st.strs, st.hashes, st.zsets, st.counter, ret, <<>>)

\* the store as it is now
Store == [strs |-> strs, hashes |-> hashes, zsets |-> zsets, counter |-> lock_id_counter]

\* the metadata hash written by HSET ... followed by EXPIRE
Meta(lock_key, agent_id, lock_id, resource_type, resource_id, ttl) ==
    [lock_key |-> lock_key, agent_id |-> agent_id, lock_id |-> lock_id,
     resource_type |-> resource_type, resource_id |-> resource_id, ttl |-> ttl]

\* Lua nil / Python None for a string
Nil == ""

-----------------------------------------------------------------------------
(* acquire_lock *)

\* the Lua script of acquire_lock; the reply is <<status code, value, lock id>>
acquire_script(st, lock_key, meta_key, queue_key, agent_lock_key, cancel_key, agent_id, ttl, lock_id, resource_type, resource_id, priority_score, allow_reentrant) ==
    IF Has(st.strs, cancel_key)
    THEN \* a pending cancellation flag: consume it
         Out(Del(st.strs, cancel_key), st.hashes, st.zsets, st.counter, <<-1, 0, Nil>>, <<>>)
    ELSE IF Has(st.strs, lock_key) /\ st.strs[lock_key].v = agent_id /\ ~allow_reentrant
    THEN Reply(st, <<-2, 0, Nil>>)
    ELSE IF Has(st.strs, lock_key) /\ st.strs[lock_key].v = agent_id /\ Has(st.strs, agent_lock_key)
    THEN \* re-entrant: extend the TTLs and return the existing lock id
         LET existing_lock_id == st.strs[agent_lock_key].v
             existing_meta_key == MetaKey(existing_lock_id)
         IN  Out(Expire(Expire(st.strs, lock_key, ttl), agent_lock_key, ttl),
                 Expire(st.hashes, existing_meta_key, ttl),
                 st.zsets, st.counter, <<2, ttl, existing_lock_id>>, <<>>)
    ELSE IF ~Has(st.strs, lock_key)
    THEN \* SET NX succeeded
         Out(SetEx(SetEx(st.strs, lock_key, agent_id, ttl), agent_lock_key, lock_id, ttl),
             Put(st.hashes, meta_key,
                 Meta(lock_key, agent_id, lock_id, resource_type, resource_id, ttl)),
             st.zsets, st.counter, <<1, ttl, Nil>>, <<>>)
    ELSE IF agent_id \in ZMembers(st.zsets, queue_key)
    THEN \* already queued: keep the entry, replace the pending lock id
         Out(SetEx(st.strs, agent_lock_key, lock_id, QueuedTTL), st.hashes, st.zsets,
             st.counter, <<0, ZRank(st.zsets, queue_key, agent_id), Nil>>, <<>>)
    ELSE \* join the queue
         LET queued == ZAdd(st.zsets, queue_key, priority_score, agent_id)
         IN  Out(SetEx(st.strs, agent_lock_key, lock_id, QueuedTTL), st.hashes, queued,
                 st.counter, <<0, ZRank(queued, queue_key, agent_id), Nil>>, <<>>)

\* acquire_eval with the priority itself as the score, not its negation
acquire_eval_unsigned(st, T, R, A, priority, ttl_arg, allow_reentrant) ==
    LET lock_id == Uuid(minted + 1)
        ttl == IF ttl_arg = 0 THEN DefaultTTL ELSE ttl_arg
    IN  acquire_script(st, LockKey(T, R), MetaKey(lock_id), QueueKey(T, R),
                       AgentLockKey(T, R, A), CancelKey(T, R, A),
                       A, ttl, lock_id, T, R, priority, allow_reentrant)

\* acquire_eval answering `cancelled` to a flagged agent without deleting the flag
acquire_eval_flag_kept(st, T, R, A, priority, ttl_arg, allow_reentrant) ==
    LET lock_id == Uuid(minted + 1)
        ttl == IF ttl_arg = 0 THEN DefaultTTL ELSE ttl_arg
    IN  IF Has(st.strs, CancelKey(T, R, A))
        THEN Reply(st, <<-1, 0, Nil>>)
        ELSE acquire_script(st, LockKey(T, R), MetaKey(lock_id), QueueKey(T, R),
                            AgentLockKey(T, R, A), CancelKey(T, R, A),
                            A, ttl, lock_id, T, R, -priority, allow_reentrant)

\* acquire_eval passing "1" for allow_reentrant whatever the caller asked
acquire_eval_reentrant(st, T, R, A, priority, ttl_arg, allow_reentrant) ==
    LET lock_id == Uuid(minted + 1)
        ttl == IF ttl_arg = 0 THEN DefaultTTL ELSE ttl_arg
    IN  acquire_script(st, LockKey(T, R), MetaKey(lock_id), QueueKey(T, R),
                       AgentLockKey(T, R, A), CancelKey(T, R, A),
                       A, ttl, lock_id, T, R, -priority, TRUE)

\* acquire_eval whose script adds the agent to the queue without looking for
\* its entry first, so a repeated request takes the new score
acquire_eval_requeue(st, T, R, A, priority, ttl_arg, allow_reentrant) ==
    LET lock_id == Uuid(minted + 1)
        ttl == IF ttl_arg = 0 THEN DefaultTTL ELSE ttl_arg
        unqueued == [st EXCEPT !.zsets = ZRem(st.zsets, QueueKey(T, R), A)]
    IN  acquire_script(unqueued, LockKey(T, R), MetaKey(lock_id), QueueKey(T, R),
                       AgentLockKey(T, R, A), CancelKey(T, R, A),
                       A, ttl, lock_id, T, R, -priority, allow_reentrant)

\* the call of the script as acquire_lock makes it; ttl_arg = 0 is ttl=None
acquire_eval(st, T, R, A, priority, ttl_arg, allow_reentrant) ==
    LET lock_id == Uuid(minted + 1)
        ttl == IF ttl_arg = 0 THEN DefaultTTL ELSE ttl_arg
    IN  acquire_script(st, LockKey(T, R), MetaKey(lock_id), QueueKey(T, R),
                       AgentLockKey(T, R, A), CancelKey(T, R, A),
                       A, ttl, lock_id, T, R, -priority, allow_reentrant)

\* the same call by the n-th of several callers that each minted a uuid before
\* any of them reached the store
acquire_eval_nth(st, n, T, R, A, priority, ttl_arg, allow_reentrant) ==
    LET lock_id == Uuid(minted + n)
        ttl == IF ttl_arg = 0 THEN DefaultTTL ELSE ttl_arg
    IN  acquire_script(st, LockKey(T, R), MetaKey(lock_id), QueueKey(T, R),
                       AgentLockKey(T, R, A), CancelKey(T, R, A),
                       A, ttl, lock_id, T, R, -priority, allow_reentrant)

AcquireResult(status, lock_id, position, expires_in) ==
    [status |-> status, lock_id |-> lock_id, position |-> position,
     expires_in |-> expires_in]

\* acquire_result reading the status codes 1 and 0 the other way round
acquire_result_swapped(st, T, R, A, priority, ttl_arg, allow_reentrant) ==
    LET ret == acquire_eval(st, T, R, A, priority, ttl_arg, allow_reentrant).ret
        lock_id == Uuid(minted + 1)
    IN  CASE ret[1] = -1 -> AcquireResult("cancelled", Nil, 0, 0)
          [] ret[1] = -2 -> AcquireResult("error", Nil, 0, 0)
          [] ret[1] = 0 -> AcquireResult("acquired", lock_id, 0, ret[2])
          [] ret[1] = 2 -> AcquireResult("already_owned", ret[3], 0, ret[2])
          [] OTHER -> AcquireResult("queued", lock_id, ret[2] + 1, 0)

\* acquire_result surfacing the zero-based rank of the script as it comes
acquire_result_zero_based(st, T, R, A, priority, ttl_arg, allow_reentrant) ==
    LET ret == acquire_eval(st, T, R, A, priority, ttl_arg, allow_reentrant).ret
        lock_id == Uuid(minted + 1)
    IN  CASE ret[1] = -1 -> AcquireResult("cancelled", Nil, 0, 0)
          [] ret[1] = -2 -> AcquireResult("error", Nil, 0, 0)
          [] ret[1] = 1 -> AcquireResult("acquired", lock_id, 0, ret[2])
          [] ret[1] = 2 -> AcquireResult("already_owned", ret[3], 0, ret[2])
          [] OTHER -> AcquireResult("queued", lock_id, ret[2], 0)

\* the dict acquire_lock returns
acquire_result(st, T, R, A, priority, ttl_arg, allow_reentrant) ==
    LET ret == acquire_eval(st, T, R, A, priority, ttl_arg, allow_reentrant).ret
        lock_id == Uuid(minted + 1)
    IN  CASE ret[1] = -1 -> AcquireResult("cancelled", Nil, 0, 0)
          [] ret[1] = -2 -> AcquireResult("error", Nil, 0, 0)
          [] ret[1] = 1 -> AcquireResult("acquired", lock_id, 0, ret[2])
          [] ret[1] = 2 -> AcquireResult("already_owned", ret[3], 0, ret[2])
          [] OTHER -> AcquireResult("queued", lock_id, ret[2] + 1, 0)

\* acquire_result_nth taking every reply for a grant
acquire_result_nth_granted(st, n, T, R, A, priority, ttl_arg, allow_reentrant) ==
    LET ret == acquire_eval_nth(st, n, T, R, A, priority, ttl_arg, allow_reentrant).ret
    IN  AcquireResult("acquired", Uuid(minted + n), 0, ret[2])

\* the dict the n-th of several concurrent callers gets
acquire_result_nth(st, n, T, R, A, priority, ttl_arg, allow_reentrant) ==
    LET ret == acquire_eval_nth(st, n, T, R, A, priority, ttl_arg, allow_reentrant).ret
        lock_id == Uuid(minted + n)
    IN  CASE ret[1] = -1 -> AcquireResult("cancelled", Nil, 0, 0)
          [] ret[1] = -2 -> AcquireResult("error", Nil, 0, 0)
          [] ret[1] = 1 -> AcquireResult("acquired", lock_id, 0, ret[2])
          [] ret[1] = 2 -> AcquireResult("already_owned", ret[3], 0, ret[2])
          [] OTHER -> AcquireResult("queued", lock_id, ret[2] + 1, 0)

\* a grant: agent holds res under lock_id, by a successful acquire or by a handoff
Grant(res, agent, lock_id) == [res |-> res, agent |-> agent, lock_id |-> lock_id]

\* a waiting request: agent joined the queue of res asking for priority
Request(res, agent, priority) == [res |-> res, agent |-> agent, priority |-> priority]

\* a `queued` answer: agent was told lock_id when it asked for res
Pending(res, agent, lock_id) == [res |-> res, agent |-> agent, lock_id |-> lock_id]

\* the last answers to the agents still waiting once the queues are z
StillPending(z) ==
    {q \in pending : q.agent \in ZMembers(z, QueueKey(q.res[1], q.res[2]))}

\* the requests still waiting once the queues are z
StillQueued(z) ==
    {q \in requests : q.agent \in ZMembers(z, QueueKey(q.res[1], q.res[2]))}

\* one call of acquire_lock; the fresh uuid counts as minted when the result carries it
acquire_lock(T, R, A, priority, ttl_arg, allow_reentrant, max_ids) ==
    LET out == acquire_eval(Store, T, R, A, priority, ttl_arg, allow_reentrant)
        res == acquire_result(Store, T, R, A, priority, ttl_arg, allow_reentrant)
        fresh == res.status \in {"acquired", "queued"}
    IN  /\ fresh => minted < max_ids
        /\ strs' = out.strs
        /\ hashes' = out.hashes
        /\ zsets' = out.zsets
        /\ lock_id_counter' = out.counter
        /\ minted' = IF fresh THEN minted + 1 ELSE minted
        /\ grants' = IF res.status = "acquired"
                     THEN grants \cup {Grant(<<T, R>>, A, res.lock_id)}
                     ELSE grants
        /\ requests' = IF /\ A \notin ZMembers(zsets, QueueKey(T, R))
                          /\ A \in ZMembers(out.zsets, QueueKey(T, R))
                       THEN requests \cup {Request(<<T, R>>, A, priority)}
                       ELSE requests
        /\ pending' = IF res.status = "queued"
                      THEN {q \in pending : q.res # <<T, R>> \/ q.agent # A}
                               \cup {Pending(<<T, R>>, A, res.lock_id)}
                      ELSE pending
        /\ UNCHANGED checking

-----------------------------------------------------------------------------
(* release_lock *)

\* The loop `for retry = 1, max_retries` of the release script from iteration
\* `retry` on, on string keys s, sorted sets z and counter c: pops the queue until
\* it finds an agent without cancel flag.  next_agent = Nil: nobody found.
RECURSIVE HandoffLoop(_, _, _, _, _, _, _)
HandoffLoop(retry, s, z, c, resource_type, resource_id, queue_key) ==
    IF retry > max_retries \/ ZSet(z, queue_key) = {}
    THEN [strs |-> s, zsets |-> z, counter |-> c, next_agent |-> Nil, next_lock_id |-> Nil]
    ELSE LET next_in_queue == ZMin(z, queue_key)
             next_agent_id == next_in_queue.m
             popped == ZRem(z, queue_key, next_agent_id)
             cancel_key == CancelKey(resource_type, resource_id, next_agent_id)
             next_agent_lock_key == AgentLockKey(resource_type, resource_id, next_agent_id)
         IN  IF Has(s, cancel_key)
             THEN \* cancelled while queued: drop it and try the next one
                  HandoffLoop(retry + 1, Del(Del(s, cancel_key), next_agent_lock_key),
                              popped, c, resource_type, resource_id, queue_key)
             ELSE IF Has(s, next_agent_lock_key)
                  THEN [strs |-> s, zsets |-> popped, counter |-> c,
                        next_agent |-> next_agent_id,
                        next_lock_id |-> s[next_agent_lock_key].v]
                  ELSE \* mapping missing: INCR lock_id_counter, fallback id
                       [strs |-> s, zsets |-> popped, counter |-> c + 1,
                        next_agent |-> next_agent_id,
                        next_lock_id |-> FallbackId(c + 1)]

\* the Lua script of release_lock, KEYS[1] = meta_key, ARGV = agent_id, default_ttl,
\* idempotent; the reply is <<status code, next agent or message, next lock id>>
release_script(st, meta_key, agent_id, default_ttl, idempotent) ==
    IF ~Has(st.hashes, meta_key)
    THEN IF idempotent THEN Reply(st, <<0, "", "">>)
         ELSE Reply(st, <<-1, "Lock not found or already expired", "">>)
    ELSE
    LET meta == st.hashes[meta_key]
        lock_key == meta.lock_key
        owner_agent_id == meta.agent_id
        resource_type == meta.resource_type
        resource_id == meta.resource_id
        owner_agent_lock_key == AgentLockKey(resource_type, resource_id, owner_agent_id)
    IN  IF agent_id # "" /\ agent_id # owner_agent_id
        THEN Reply(st, <<-3, "Permission denied: not lock owner", "">>)
        ELSE IF ~Has(st.strs, lock_key)
        THEN \* the lock expired: clean up the orphaned metadata
             Out(Del(st.strs, owner_agent_lock_key), Del(st.hashes, meta_key), st.zsets,
                 st.counter,
                 IF idempotent THEN <<0, "", "">>
                 ELSE <<-4, "Lock expired before release", "">>,
                 <<>>)
        ELSE IF st.strs[lock_key].v # owner_agent_id
        THEN Reply(st, <<-5, "Lock ownership changed during release", "">>)
        ELSE
        LET queue_key == QueueKeyOfLockKey(lock_key)
            loop == HandoffLoop(1, st.strs, st.zsets, st.counter,
                                resource_type, resource_id, queue_key)
            next_agent_id == loop.next_agent
            next_lock_id == loop.next_lock_id
        IN  IF next_agent_id # Nil
            THEN \* grant to the next agent: SET XX on the lock key, which exists
                 LET next_agent_lock_key ==
                         AgentLockKey(resource_type, resource_id, next_agent_id)
                 IN  Out(SetEx(SetEx(Del(loop.strs, owner_agent_lock_key),
                                     lock_key, next_agent_id, default_ttl),
                               next_agent_lock_key, next_lock_id, default_ttl),
                         Put(Del(st.hashes, meta_key), MetaKey(next_lock_id),
                             Meta(lock_key, next_agent_id, next_lock_id,
                                  resource_type, resource_id, default_ttl)),
                         loop.zsets, loop.counter,
                         <<1, next_agent_id, next_lock_id>>,
                         <<[channel |-> GrantChannel(lock_key),
                            payload |-> next_agent_id \o ":" \o next_lock_id]>>)
            ELSE \* no valid agent in the queue: release completely
                 Out(Del(Del(loop.strs, lock_key), owner_agent_lock_key),
                     Del(st.hashes, meta_key), loop.zsets, loop.counter,
                     <<0, "", "">>, <<>>)

\* idempotent: bool = True
DefaultIdempotent == TRUE

\* release_eval doing the first half of a handoff made of two store steps: the
\* holder key is deleted and the successor, still queued, is to be granted next
release_eval_two_steps(st, lock_id, agent_id, idempotent) ==
    LET out == release_script([st EXCEPT !.zsets = Empty], MetaKey(lock_id), agent_id,
                              DefaultTTL, idempotent)
    IN  Out(out.strs, out.hashes, st.zsets, out.counter, out.ret, out.pub)

\* release_eval whose script grants to the successor without the PUBLISH
release_eval_silent(st, lock_id, agent_id, idempotent) ==
    LET out == release_script(st, MetaKey(lock_id), agent_id, DefaultTTL, idempotent)
    IN  Out(out.strs, out.hashes, out.zsets, out.counter, out.ret, <<>>)

\* release_eval passing "" for the agent id whatever the caller gave
release_eval_anyone(st, lock_id, agent_id, idempotent) ==
    release_script(st, MetaKey(lock_id), NoAgent, DefaultTTL, idempotent)

\* release_eval whose script discards the waiters instead of handing over
release_eval_discard(st, lock_id, agent_id, idempotent) ==
    release_script([st EXCEPT !.zsets = Empty], MetaKey(lock_id), agent_id, DefaultTTL,
                   idempotent)

\* release_eval answering without running the script
release_eval_dry(st, lock_id, agent_id, idempotent) == Reply(st, <<0, "", "">>)

\* the call of the script as release_lock makes it; agent_id = NoAgent is None
release_eval(st, lock_id, agent_id, idempotent) ==
    release_script(st, MetaKey(lock_id), agent_id, DefaultTTL, idempotent)

\* release_result taking the status code 0 for an error as well
release_result_strict(st, lock_id, agent_id, idempotent) ==
    LET ret == release_eval(st, lock_id, agent_id, idempotent).ret
    IN  IF ret[1] <= 0
        THEN [status |-> "error", message |-> ret[2], next_agent |-> Nil,
              next_lock_id |-> Nil]
        ELSE [status |-> "released", message |-> "", next_agent |-> ret[2],
              next_lock_id |-> ret[3]]

\* the dict release_lock returns
release_result(st, lock_id, agent_id, idempotent) ==
    LET ret == release_eval(st, lock_id, agent_id, idempotent).ret
    IN  IF ret[1] < 0
        THEN [status |-> "error", message |-> ret[2], next_agent |-> Nil,
              next_lock_id |-> Nil]
        ELSE IF ret[1] = 1
        THEN [status |-> "released", message |-> "", next_agent |-> ret[2],
              next_lock_id |-> ret[3]]
        ELSE [status |-> "released", message |-> "", next_agent |-> Nil,
              next_lock_id |-> Nil]

\* (resource_type, resource_id) recorded for a lock id, <<Nil, Nil>> without metadata
ResourceOf(st, lock_id) ==
    IF Has(st.hashes, MetaKey(lock_id))
    THEN <<st.hashes[MetaKey(lock_id)].resource_type, st.hashes[MetaKey(lock_id)].resource_id>>
    ELSE <<Nil, Nil>>

\* one call of release_lock.  A release that returns `released` ends the grant made
\* under its lock id; a handoff issues the successor's grant.
release_lock(lock_id, agent_id, idempotent) ==
    LET out == release_eval(Store, lock_id, agent_id, idempotent)
        res == release_result(Store, lock_id, agent_id, idempotent)
        left == IF res.status = "released"
                THEN {g \in grants : g.lock_id # lock_id} ELSE grants
    IN  /\ strs' = out.strs
        /\ hashes' = out.hashes
        /\ zsets' = out.zsets
        /\ lock_id_counter' = out.counter
        /\ grants' = IF res.next_agent # Nil
                     THEN left \cup {Grant(ResourceOf(Store, lock_id), res.next_agent,
                                           res.next_lock_id)}
                     ELSE left
        /\ requests' = StillQueued(out.zsets)
        /\ pending' = StillPending(out.zsets)
        /\ UNCHANGED <<minted, checking>>

-----------------------------------------------------------------------------
(* cancel_lock_request *)

\* cancel_script without the ZREM: it reports the removal and leaves the entry
cancel_script_keep(st, queue_key, agent_lock_key, cancel_key, agent_id) ==
    IF agent_id \in ZMembers(st.zsets, queue_key)
    THEN Out(Del(st.strs, agent_lock_key), st.hashes, st.zsets,
             st.counter, <<1, "removed_from_queue">>, <<>>)
    ELSE Out(SetEx(st.strs, cancel_key, "1", CancelTTL), st.hashes, st.zsets,
             st.counter, <<0, "not_in_queue_flag_set">>, <<>>)

\* cancel_script leaving the flag for a queued agent as well, without the ZREM
cancel_script_flag_only(st, queue_key, agent_lock_key, cancel_key, agent_id) ==
    Out(SetEx(st.strs, cancel_key, "1", CancelTTL), st.hashes, st.zsets,
        st.counter, <<0, "not_in_queue_flag_set">>, <<>>)

\* cancel_script leaving no flag for an agent that is not queued
cancel_script_no_flag(st, queue_key, agent_lock_key, cancel_key, agent_id) ==
    IF agent_id \in ZMembers(st.zsets, queue_key)
    THEN Out(Del(st.strs, agent_lock_key), st.hashes, ZRem(st.zsets, queue_key, agent_id),
             st.counter, <<1, "removed_from_queue">>, <<>>)
    ELSE Reply(st, <<0, "not_in_queue_flag_set">>)

\* the Lua script of cancel_lock_request; the reply is <<status code, detail>>
cancel_script(st, queue_key, agent_lock_key, cancel_key, agent_id) ==
    IF agent_id \in ZMembers(st.zsets, queue_key)
    THEN \* ZREM removed it
         Out(Del(st.strs, agent_lock_key), st.hashes, ZRem(st.zsets, queue_key, agent_id),
             st.counter, <<1, "removed_from_queue">>, <<>>)
    ELSE \* not in the queue: leave a cancellation flag
         Out(SetEx(st.strs, cancel_key, "1", CancelTTL), st.hashes, st.zsets,
             st.counter, <<0, "not_in_queue_flag_set">>, <<>>)

cancel_eval(st, T, R, A) ==
    cancel_script(st, QueueKey(T, R), AgentLockKey(T, R, A), CancelKey(T, R, A), A)

\* the dict cancel_lock_request returns
cancel_result(st, T, R, A) ==
    [status |-> "cancelled", detail |-> cancel_eval(st, T, R, A).ret[2]]

cancel_lock_request(T, R, A) ==
    LET out == cancel_eval(Store, T, R, A)
    IN  /\ strs' = out.strs
        /\ hashes' = out.hashes
        /\ zsets' = out.zsets
        /\ lock_id_counter' = out.counter
        /\ requests' = StillQueued(out.zsets)
        /\ pending' = StillPending(out.zsets)
        /\ UNCHANGED <<minted, grants, checking>>

-----------------------------------------------------------------------------
(* extend_lock *)

\* the Lua script of extend_lock, KEYS[1] = meta_key, ARGV = agent_id,
\* additional_ttl, resource_type, resource_id; the reply is <<status code, value>>
extend_script(st, meta_key, agent_id, additional_ttl, resource_type, resource_id) ==
    IF ~Has(st.hashes, meta_key) THEN Reply(st, <<-1, "Lock metadata not found">>)
    ELSE
    LET lock_key == st.hashes[meta_key].lock_key
        owner == st.hashes[meta_key].agent_id
        agent_lock_key == AgentLockKey(resource_type, resource_id, owner)
    IN  IF agent_id # "" /\ agent_id # owner THEN Reply(st, <<-2, "Not lock owner">>)
        ELSE IF ~Has(st.strs, lock_key) THEN Reply(st, <<-3, "Lock expired">>)
        ELSE IF st.strs[lock_key].v # owner THEN Reply(st, <<-4, "Lock ownership changed">>)
        ELSE Out(Expire(Expire(st.strs, lock_key, additional_ttl),
                        agent_lock_key, additional_ttl),
                 Expire(st.hashes, meta_key, additional_ttl),
                 st.zsets, st.counter, <<1, additional_ttl>>, <<>>)

\* extend_lock reads the metadata first (for resource_type and resource_id) and
\* returns "Lock not found" without running the script when there is none; the
\* two fields never change while the metadata of a lock id exists, so the read
\* and the script are one step here
extend_eval(st, lock_id, additional_ttl, agent_id) ==
    IF ~Has(st.hashes, MetaKey(lock_id)) THEN Reply(st, <<-1, "Lock not found">>)
    ELSE extend_script(st, MetaKey(lock_id), agent_id, additional_ttl,
                       st.hashes[MetaKey(lock_id)].resource_type,
                       st.hashes[MetaKey(lock_id)].resource_id)

\* the dict extend_lock returns
extend_result(st, lock_id, additional_ttl, agent_id) ==
    LET ret == extend_eval(st, lock_id, additional_ttl, agent_id).ret
    IN  IF ret[1] < 0 THEN [status |-> "error", message |-> ret[2], new_ttl |-> 0]
        ELSE [status |-> "extended", message |-> "", new_ttl |-> ret[2]]

extend_lock(lock_id, additional_ttl, agent_id) ==
    LET out == extend_eval(Store, lock_id, additional_ttl, agent_id)
    IN  /\ strs' = out.strs
        /\ hashes' = out.hashes
        /\ zsets' = out.zsets
        /\ lock_id_counter' = out.counter
        /\ UNCHANGED <<minted, grants, requests, pending, checking, waiter>>

-----------------------------------------------------------------------------
(* check_lock_status: two reads with anything in between *)

\* what HGETALL lock_meta:<lock_id> gives the status check on store st: the
\* fields it goes on to use, all empty when there is no such hash
ReadMeta(st, lock_id) ==
    IF Has(st.hashes, MetaKey(lock_id))
    THEN [lock_key |-> st.hashes[MetaKey(lock_id)].lock_key,
          agent_id |-> st.hashes[MetaKey(lock_id)].agent_id,
          lock_id |-> st.hashes[MetaKey(lock_id)].lock_id]
    ELSE NotChecking

StatusResult(status, agent_id) == [status |-> status, agent_id |-> agent_id]

\* check_lock_status answering `expired` whatever it reads
check_lock_status_expired(meta, st) == StatusResult("expired", Nil)

\* the dict check_lock_status returns when its first read gave meta and its
\* second read, GET lock_key, is made on store st
check_lock_status(meta, st) ==
    IF meta = NotChecking THEN StatusResult("expired", Nil)
    ELSE IF meta.lock_key # "" /\ Get(st.strs, meta.lock_key) = Nil
    THEN StatusResult("expired", Nil)
    ELSE StatusResult("active", meta.agent_id)

\* first step: read the metadata; without metadata the call returns at once
status_read_meta(lock_id) ==
    /\ checking = NotChecking
    /\ checking' = ReadMeta(Store, lock_id)
    /\ UNCHANGED <<strs, hashes, zsets, lock_id_counter, minted, grants, requests, pending, waiter>>

\* second step: read the lock key and return
status_read_owner ==
    /\ checking # NotChecking
    /\ checking' = NotChecking
    /\ UNCHANGED <<strs, hashes, zsets, lock_id_counter, minted, grants, requests, pending, waiter>>

\* get_queue_position: ZRANK plus one, 0 standing for None
get_queue_position(st, resource_type, resource_id, agent_id) ==
    IF agent_id \in ZMembers(st.zsets, QueueKey(resource_type, resource_id))
    THEN ZRank(st.zsets, QueueKey(resource_type, resource_id), agent_id) + 1
    ELSE 0

-----------------------------------------------------------------------------
(* cleanup_all_locks *)

\* the Lua script of cleanup_all_locks; the reply is the number of metadata
\* hashes it went through
cleanup_script(st) ==
    LET meta_keys == Scan(st.hashes, "lock_meta:")
        lock_keys == {st.hashes[k].lock_key : k \in meta_keys}
        queue_keys == {QueueKeyOfLockKey(k) : k \in lock_keys}
        unlocked == DelAll(st.strs, lock_keys)
        unmapped == DelAll(unlocked, Scan(unlocked, "agent_lock:"))
    IN  Out(DelAll(unmapped, Scan(unmapped, "cancel:")),
            DelAll(st.hashes, meta_keys), DelAll(st.zsets, queue_keys), st.counter,
            Cardinality(meta_keys), <<>>)

\* the dict cleanup_all_locks returns
cleanup_result(st) == [status |-> "cleaned", locks_released |-> cleanup_script(st).ret]

cleanup_all_locks ==
    LET out == cleanup_script(Store)
    IN  /\ strs' = out.strs
        /\ hashes' = out.hashes
        /\ zsets' = out.zsets
        /\ lock_id_counter' = out.counter
        /\ grants' = {g \in grants : Has(out.strs, LockKey(g.res[1], g.res[2]))}
        /\ requests' = StillQueued(out.zsets)
        /\ pending' = StillPending(out.zsets)
        /\ UNCHANGED <<minted, checking, waiter>>

-----------------------------------------------------------------------------
(* The SDK client: ProtoMeshClient.acquire_lock(wait=True) *)

\* Python's data.startswith(prefix)
StartsWith(data, prefix) ==
    Len(data) >= Len(prefix) /\ SubSeq(data, 1, Len(prefix)) = prefix

\* Python's data.split(":", 1)[1]: the text after the first ':' of data
AfterFirstColon(data) ==
    LET i == CHOOSE n \in 1..Len(data) :
                 /\ SubSeq(data, n, n) = ":"
                 /\ \A m \in 1..(n - 1) : SubSeq(data, m, m) # ":"
    IN  SubSeq(data, i + 1, Len(data))

\* the channel _wait_for_lock_grant subscribes to
SdkChannel(resource_type, resource_id) ==
    "lock_granted:lock:" \o resource_type \o ":" \o resource_id

\* the client answered `queued`, before it subscribes
Queued(agent, res) ==
    [pc |-> "queued", agent |-> agent, res |-> res, channel |-> Nil,
     inbox |-> <<>>, data |-> Nil, lock_id |-> Nil, sent_to |-> Nil, sent_id |-> Nil,
     cancel_issued |-> FALSE]

\* what the script out published reaches the client w: a message on the
\* channel w is subscribed to, with the agent and lock id the script granted to
Deliver(w, out) ==
    IF w.pc = "waiting" /\ out.pub # <<>> /\ out.pub[1].channel = w.channel
    THEN [w EXCEPT !.inbox = Append(@, [data |-> out.pub[1].payload,
                                        sent_to |-> out.ret[2],
                                        sent_id |-> out.ret[3]])]
    ELSE w

\* acquire_lock(wait=True) up to the answer of the POST to /v1/locks/acquire:
\* the client goes on to wait when the answer is `queued` and returns any other
sdk_acquire_lock(resource_type, resource_id, priority, max_ids) ==
    /\ waiter = NoWaiter
    /\ acquire_lock(resource_type, resource_id, SdkAgent, priority, 0, FALSE, max_ids)
    /\ waiter' = IF acquire_result(Store, resource_type, resource_id, SdkAgent, priority,
                                   0, FALSE).status = "queued"
                 THEN Queued(SdkAgent, <<resource_type, resource_id>>)
                 ELSE NoWaiter

\* _wait_for_lock_grant subscribes and arms the timeout
sdk_subscribe ==
    /\ waiter.pc = "queued"
    /\ waiter' = [waiter EXCEPT !.pc = "waiting",
                                !.channel = SdkChannel(waiter.res[1], waiter.res[2])]
    /\ UNCHANGED <<strs, hashes, zsets, lock_id_counter, minted, grants, requests, pending, checking>>

\* Listened without the test of the payload: the first message resolves the wait
ListenedUnfiltered(w, m) ==
    [w EXCEPT !.pc = "acquired", !.inbox = <<>>, !.data = m.data,
              !.lock_id = AfterFirstColon(m.data),
              !.sent_to = m.sent_to, !.sent_id = m.sent_id]

\* the client w after the message m of pubsub.listen(): it returns `acquired`
\* with the lock id it reads from a message that begins with its agent id and
\* ':', and goes on listening after any other
Listened(w, m) ==
    IF StartsWith(m.data, w.agent \o ":")
    THEN [w EXCEPT !.pc = "acquired", !.inbox = <<>>, !.data = m.data,
                   !.lock_id = AfterFirstColon(m.data),
                   !.sent_to = m.sent_to, !.sent_id = m.sent_id]
    ELSE [w EXCEPT !.inbox = Tail(@)]

sdk_listen ==
    /\ waiter.pc = "waiting"
    /\ waiter.inbox # <<>>
    /\ waiter' = Listened(waiter, Head(waiter.inbox))
    /\ UNCHANGED <<strs, hashes, zsets, lock_id_counter, minted, grants, requests, pending, checking>>

\* the client w going straight from the timeout to the TimeoutError
TimedOutUncancelled(w) == [w EXCEPT !.pc = "raise", !.inbox = <<>>]

\* the client w when asyncio.timeout fires: _wait_for_lock_grant returns None
TimedOut(w) == [w EXCEPT !.pc = "timed_out", !.inbox = <<>>]

sdk_timeout ==
    /\ waiter.pc = "waiting"
    /\ waiter' = TimedOut(waiter)
    /\ UNCHANGED <<strs, hashes, zsets, lock_id_counter, minted, grants, requests, pending, checking>>

\* _cancel_lock_request: the POST to /v1/locks/cancel reaches the engine
sdk_cancel ==
    /\ waiter.pc = "timed_out"
    /\ cancel_lock_request(waiter.res[1], waiter.res[2], waiter.agent)
    /\ waiter' = [waiter EXCEPT !.pc = "raise", !.cancel_issued = TRUE]

\* _cancel_lock_request: the POST fails and the exception is swallowed
sdk_cancel_lost ==
    /\ waiter.pc = "timed_out"
    /\ waiter' = [waiter EXCEPT !.pc = "raise", !.cancel_issued = TRUE]
    /\ UNCHANGED <<strs, hashes, zsets, lock_id_counter, minted, grants, requests, pending, checking>>

\* acquire_lock returns the grant, or raises TimeoutError
sdk_leave ==
    /\ waiter.pc \in {"acquired", "raise"}
    /\ waiter' = NoWaiter
    /\ UNCHANGED <<strs, hashes, zsets, lock_id_counter, minted, grants, requests, pending, checking>>

-----------------------------------------------------------------------------
(* Failure of the store *)

\* an exception leaving a method of LockManager
Raised(exception) == [status |-> "exception", message |-> exception]

\* what a method of LockManager that awaits the store and then returns result
\* can end with: the store answers and the method returns result, or the store
\* is unreachable (or the script fails), the await raises, and the exception
\* leaves the method, which has no handler
Outcomes(result) == {result, Raised("ConnectionError"), Raised("ResponseError")}

-----------------------------------------------------------------------------
(* Passage of time: one unit passes and the keys whose TTL runs out        *)
(* disappear.  The lease of a grant is the TTL of its lock key.            *)

\* Age for a store whose keys outlive their TTL
AgeWithoutExpiry(m) == [k \in DOMAIN m |-> [m[k] EXCEPT !.ttl = IF @ > 1 THEN @ - 1 ELSE @]]

\* a map of keys with TTL one time unit later
Age(m) == [k \in {x \in DOMAIN m : m[x].ttl > 1} |-> [m[k] EXCEPT !.ttl = @ - 1]]

Tick ==
    /\ (DOMAIN strs) \cup (DOMAIN hashes) # {}
    /\ strs' = Age(strs)
    /\ hashes' = Age(hashes)
    /\ grants' = {g \in grants : Has(Age(strs), LockKey(g.res[1], g.res[2]))}
    /\ UNCHANGED <<zsets, lock_id_counter, minted, requests, pending, checking, waiter>>

-----------------------------------------------------------------------------
(* The engine under arbitrary clients.  Of the arguments a call does not   *)
(* read in the current store only the default is tried: it goes the same   *)
(* way with any other.                                                     *)

\* lock ids a client can present: those handed out, and one that never existed
LockIdArgs ==
    {Uuid(n) : n \in 1..minted} \cup {FallbackId(n) : n \in 1..lock_id_counter}
        \cup {"fake-lock-id"}

Holds(T, R, A) == Has(strs, LockKey(T, R)) /\ strs[LockKey(T, R)].v = A

Acquire(RS, AG, max_ids) ==
    \E r \in RS, A \in AG :
        LET flagged == Has(strs, CancelKey(r[1], r[2], A))
            held == Has(strs, LockKey(r[1], r[2]))
            mine == Holds(r[1], r[2], A)
            queued == A \in ZMembers(zsets, QueueKey(r[1], r[2]))
        IN  \E allow_reentrant \in IF ~flagged /\ mine THEN BOOLEAN ELSE {FALSE},
               priority \in IF ~flagged /\ held /\ ~queued THEN Priorities
                            ELSE {DefaultPriority},
               ttl_arg \in IF ~flagged /\ (~held \/ mine) THEN TTLArgs ELSE {0} :
                /\ acquire_lock(r[1], r[2], A, priority, ttl_arg, allow_reentrant, max_ids)
                /\ UNCHANGED waiter

\* the call finds metadata and a lock key to work on
Live(lock_id) ==
    Has(hashes, MetaKey(lock_id)) /\ Has(strs, hashes[MetaKey(lock_id)].lock_key)

\* lock ids with metadata, or with a grant to end
Known(lock_id) ==
    Has(hashes, MetaKey(lock_id)) \/ \E g \in grants : g.lock_id = lock_id

Release(AG) ==
    \E lock_id \in {l \in LockIdArgs : l = "fake-lock-id" \/ Known(l)} :
        \E agent_id \in IF Has(hashes, MetaKey(lock_id)) THEN AG \cup {NoAgent}
                        ELSE {NoAgent},
           idempotent \in IF Live(lock_id) THEN {DefaultIdempotent} ELSE BOOLEAN :
            /\ release_lock(lock_id, agent_id, idempotent)
            /\ waiter' = Deliver(waiter, release_eval(Store, lock_id, agent_id, idempotent))

Cancel(RS, AG) ==
    \E r \in RS, A \in AG : cancel_lock_request(r[1], r[2], A) /\ UNCHANGED waiter

Extend(AG) ==
    \E lock_id \in {l \in LockIdArgs : l = "fake-lock-id" \/ Live(l)} :
        \E agent_id \in IF Live(lock_id) THEN AG \cup {NoAgent} ELSE {NoAgent},
           additional_ttl \in IF Live(lock_id) THEN ExtendArgs ELSE {DefaultTTL} :
            extend_lock(lock_id, additional_ttl, agent_id)

Next ==
    \/ Acquire(Resources, Agents, MaxLockIds)
    \/ Release(Agents)
    \/ Cancel(Resources, Agents)
    \/ Extend(Agents)
    \/ Tick

Spec == Init /\ [][Next]_vars

\* the three agents again, for the properties that compare queue positions
NextRank ==
    \/ Acquire(Resources, Agents, MaxLockIdsRank)
    \/ Release(Agents)
    \/ Cancel(Resources, Agents)
    \/ Extend(Agents)
    \/ Tick

SpecRank == Init /\ [][NextRank]_vars

\* two agents, more lock ids
NextPair ==
    \/ Acquire(Resources, AgentsPair, MaxLockIdsPair)
    \/ Release(AgentsPair)
    \/ Cancel(Resources, AgentsPair)
    \/ Extend(AgentsPair)
    \/ Tick

SpecPair == Init /\ [][NextPair]_vars

NextDeep ==
    \/ Acquire(Resources, AgentsPair, MaxLockIdsDeep)
    \/ Release(AgentsPair)
    \/ Cancel(Resources, AgentsPair)
    \/ Extend(AgentsPair)
    \/ Tick

SpecDeep == Init /\ [][NextDeep]_vars

\* two agents on two resources
NextKeys ==
    \/ Acquire(ResourcesKeys, AgentsPair, MaxLockIdsKeys)
    \/ Release(AgentsPair)
    \/ Cancel(ResourcesKeys, AgentsPair)
    \/ Extend(AgentsPair)
    \/ Tick

SpecKeys == Init /\ [][NextKeys]_vars

\* a status check of any lock id a client can present
CheckStatus == \E lock_id \in LockIdArgs : status_read_meta(lock_id)

\* two agents, with status checks and cleanups going on
NextAdmin ==
    \/ Acquire(Resources, AgentsPair, MaxLockIdsAdmin)
    \/ Release(AgentsPair)
    \/ Cancel(Resources, AgentsPair)
    \/ Extend(AgentsPair)
    \/ Tick
    \/ CheckStatus
    \/ status_read_owner
    \/ cleanup_all_locks

SpecAdmin == Init /\ [][NextAdmin]_vars

\* two agents on two resources with the delimiter in their names
NextColon ==
    \/ Acquire(ResourcesColon, AgentsPair, MaxLockIdsColon)
    \/ Release(AgentsPair)
    \/ Cancel(ResourcesColon, AgentsPair)
    \/ Extend(AgentsPair)
    \/ Tick

SpecColon == Init /\ [][NextColon]_vars

\* POST /v1/locks/acquire: the request carries no allow_reentrant
PostAcquire(RS, AG, max_ids) ==
    \E r \in RS, A \in AG :
        LET flagged == Has(strs, CancelKey(r[1], r[2], A))
            held == Has(strs, LockKey(r[1], r[2]))
            queued == A \in ZMembers(zsets, QueueKey(r[1], r[2]))
        IN  \E priority \in IF ~flagged /\ held /\ ~queued THEN Priorities
                            ELSE {DefaultPriority},
               ttl_arg \in IF ~flagged /\ ~held THEN TTLArgs ELSE {0} :
                /\ acquire_lock(r[1], r[2], A, priority, ttl_arg, FALSE, max_ids)
                /\ UNCHANGED waiter

\* POST /v1/locks/release: the request carries no idempotent
PostRelease(AG) ==
    \E lock_id \in {l \in LockIdArgs : l = "fake-lock-id" \/ Known(l)} :
        \E agent_id \in IF Has(hashes, MetaKey(lock_id)) THEN AG \cup {NoAgent}
                        ELSE {NoAgent} :
            /\ release_lock(lock_id, agent_id, DefaultIdempotent)
            /\ waiter' = Deliver(waiter, release_eval(Store, lock_id, agent_id,
                                                      DefaultIdempotent))

SdkAcquire ==
    \E r \in Resources, priority \in Priorities :
        sdk_acquire_lock(r[1], r[2], priority, MaxLockIdsSdk)

\* the SDK client of agent "a" among agents that post to the HTTP endpoints,
\* which are acquire, release and cancel
NextSdk ==
    \/ PostAcquire(Resources, AgentsDirect, MaxLockIdsSdk)
    \/ PostRelease(AgentsSdk)
    \/ Cancel(Resources, AgentsDirect)
    \/ Tick
    \/ SdkAcquire
    \/ sdk_subscribe
    \/ sdk_listen
    \/ sdk_timeout
    \/ sdk_cancel
    \/ sdk_cancel_lost
    \/ sdk_leave

SpecSdk == Init /\ [][NextSdk]_vars

\* the holder of a lock releases it, with the lock id and the agent id of its grant
HolderReleases ==
    \E g \in grants :
        release_lock(g.lock_id, g.agent, DefaultIdempotent) /\ UNCHANGED waiter

\* agents that acquire and holders that release: no lease runs out and no
\* request is cancelled
NextDrain ==
    \/ Acquire(Resources, Agents, MaxLockIdsDrain)
    \/ HolderReleases

Drain == Init /\ [][NextDrain]_vars

\* a release by the holder changes the store whenever a grant is outstanding:
\* HolderReleases is enabled exactly in the states that have a holder
HolderReleasesEnabled ==
    grants # {} =>
        \E g \in grants :
            LET out == release_eval(Store, g.lock_id, g.agent, DefaultIdempotent)
            IN  out.strs # strs \/ out.hashes # hashes \/ out.zsets # zsets

\* every holder eventually releases its lock: weak fairness of HolderReleases,
\* written with the enabling condition HolderReleasesEnabled gives
HoldersRelease == []<>(grants = {}) \/ []<><<HolderReleases>>_vars

SpecDrain == Drain /\ HoldersRelease

-----------------------------------------------------------------------------
(* Properties.  The result a call would return is the value of its result  *)
(* operator on the store the call is made on, so a property of the results *)
(* of calls is an invariant over all the arguments of the calls, and a     *)
(* property of a call that follows another is one on the store the first   *)
(* call leaves.                                                            *)

AllResources == Resources \cup ResourcesKeys
AgentArgs == Agents \cup {NoAgent}

GrantsOn(r) == {g \in grants : g.res = r}
QueueIn(st, r) == ZMembers(st.zsets, QueueKey(r[1], r[2]))
MetasOf(lock_key) == {k \in DOMAIN hashes : hashes[k].lock_key = lock_key}

\* C1 - Mutual exclusion: in every reachable state and for every resource, at
\* most one grant (issued by an `acquired` result or by a handoff, and not ended
\* by a release of its lock id or by the expiry of the lease) is outstanding.
MutualExclusion == \A r \in AllResources : Cardinality(GrantsOn(r)) <= 1

\* C2 - Holder/metadata consistency: if the holder key of a resource exists then
\* exactly one metadata hash has lock_key equal to it, and the agent_id of that
\* hash is the value of the holder key.
HolderMetadataConsistency ==
    \A r \in AllResources :
        Has(strs, LockKey(r[1], r[2])) =>
            /\ Cardinality(MetasOf(LockKey(r[1], r[2]))) = 1
            /\ \A k \in MetasOf(LockKey(r[1], r[2])) :
                   hashes[k].agent_id = strs[LockKey(r[1], r[2])].v

\* C3 - Queue/holder disjointness: no agent is at the same time in the wait
\* queue of a resource and the value of its holder key.
QueueHolderDisjoint ==
    \A r \in AllResources, A \in Agents :
        ~(Holds(r[1], r[2], A) /\ A \in QueueIn(Store, r))

\* C4 - Tombstone/holder exclusion: if the cancel flag of agent A on a resource
\* exists then A is not the value of the holder key of that resource.
TombstoneHolderExclusion ==
    \A r \in AllResources, A \in Agents :
        Has(strs, CancelKey(r[1], r[2], A)) => ~Holds(r[1], r[2], A)

\* on store st, release_lock(lock_id, agent_id) is a release by the valid
\* holder: the metadata exists, the caller is the recorded owner (or names
\* nobody) and the holder key carries the recorded owner
ValidRelease(st, lock_id, agent_id) ==
    /\ Has(st.hashes, MetaKey(lock_id))
    /\ agent_id \in {NoAgent, st.hashes[MetaKey(lock_id)].agent_id}
    /\ Has(st.strs, st.hashes[MetaKey(lock_id)].lock_key)
    /\ st.strs[st.hashes[MetaKey(lock_id)].lock_key].v
           = st.hashes[MetaKey(lock_id)].agent_id

\* the requests waiting on r in store st, with the priorities the agents asked
WaitingIn(st, r) == {q \in requests : q.res = r /\ q.agent \in QueueIn(st, r)}
\* request x goes before request y: higher priority, or the same priority and
\* the lexicographically smaller agent id
Ahead(x, y) ==
    x.priority > y.priority \/ (x.priority = y.priority /\ StrLess(x.agent, y.agent))
BestQueued(st, r) ==
    (CHOOSE x \in WaitingIn(st, r) : \A y \in WaitingIn(st, r) \ {x} : Ahead(x, y)).agent

\* C5 - Priority order: every release by the valid holder made while the wait
\* queue is non-empty returns as next_agent the queued agent that asked the
\* highest priority, and among equal priorities the lexicographically smallest
\* agent id, whatever the order the agents queued in.
PriorityOrder ==
    \A lock_id \in LockIdArgs, agent_id \in AgentArgs, idempotent \in BOOLEAN :
        (/\ ValidRelease(Store, lock_id, agent_id)
         /\ WaitingIn(Store, ResourceOf(Store, lock_id)) # {})
            => release_result(Store, lock_id, agent_id, idempotent).next_agent
                   = BestQueued(Store, ResourceOf(Store, lock_id))

\* C5, the case: "a" holds, "ab" and "b" wait, "b" asked the higher priority
\* although it sorts last, and the release names "b"
PriorityBeatsName ==
    \E lock_id \in LockIdArgs :
        /\ ValidRelease(Store, lock_id, NoAgent)
        /\ {q.agent : q \in WaitingIn(Store, ResourceOf(Store, lock_id))} = {"ab", "b"}
        /\ \E x, y \in WaitingIn(Store, ResourceOf(Store, lock_id)) :
               x.agent = "b" /\ y.agent = "ab" /\ x.priority > y.priority
        /\ release_result(Store, lock_id, NoAgent, DefaultIdempotent).next_agent = "b"

\* every release by the valid holder of r on store st passes over B: it names
\* the best agent queued in st, or nobody, and then leaves r without holder
ReleasePassesOver(st, r, B) ==
    \A lock_id \in LockIdArgs, agent_id \in AgentArgs, idempotent \in BOOLEAN :
        (ValidRelease(st, lock_id, agent_id) /\ ResourceOf(st, lock_id) = r) =>
            LET res == release_result(st, lock_id, agent_id, idempotent)
                out == release_eval(st, lock_id, agent_id, idempotent)
            IN  /\ res.next_agent # B
                /\ WaitingIn(st, r) # {} => res.next_agent = BestQueued(st, r)
                /\ WaitingIn(st, r) = {} =>
                       res.next_agent = Nil /\ ~Has(out.strs, LockKey(r[1], r[2]))

\* C6 - Cancel correctness: when agent B is queued on a resource and
\* cancel(T,R,B) completes, B is out of the queue and the release by the holder
\* does not grant to B: it names the best agent still queued or, with nobody
\* else queued, returns no successor and leaves the resource without holder.
\* No release ever names an agent that is not queued.
CancelCorrectness ==
    \A r \in Resources, B \in Agents :
        IF B \in QueueIn(Store, r)
        THEN /\ B \notin QueueIn(cancel_eval(Store, r[1], r[2], B), r)
             /\ ReleasePassesOver(cancel_eval(Store, r[1], r[2], B), r, B)
        ELSE \A lock_id \in LockIdArgs, agent_id \in AgentArgs, idempotent \in BOOLEAN :
                 (ValidRelease(Store, lock_id, agent_id) /\ ResourceOf(Store, lock_id) = r)
                     => release_result(Store, lock_id, agent_id, idempotent).next_agent # B

\* C6, the case: "a" holds under the first lock id, "b" waits with the second,
\* the third went to "ab", which waits no longer although "a" never released:
\* its request was cancelled, and the release names "b"
CancelledPassedOver ==
    /\ minted = 3
    /\ Holds("customer", "123", "a")
    /\ ValidRelease(Store, Uuid(1), "a")
    /\ Get(strs, AgentLockKey("customer", "123", "b")) = Uuid(2)
    /\ QueueIn(Store, <<"customer", "123">>) = {"b"}
    /\ release_result(Store, Uuid(1), "a", DefaultIdempotent).next_agent = "b"

\* C7 - Expiry liveness, as stated: when the holder key of a resource is gone,
\* an acquire returns `acquired`, whatever the wait queue holds and whoever
\* the acquiring agent is.
ExpiryLiveness ==
    \A r \in Resources, A \in Agents, priority \in Priorities, ttl_arg \in TTLArgs,
       allow_reentrant \in BOOLEAN :
        ~Has(strs, LockKey(r[1], r[2])) =>
            acquire_result(Store, r[1], r[2], A, priority, ttl_arg,
                           allow_reentrant).status = "acquired"

\* C7 - Expiry liveness, as the code has it: when the holder key of a resource
\* is gone, an acquire by an agent that has no cancel flag on the resource
\* returns `acquired`, whatever the wait queue holds; an agent with a cancel flag
\* gets `cancelled`.
ExpiryLivenessUnflagged ==
    \A r \in Resources, A \in Agents, priority \in Priorities, ttl_arg \in TTLArgs,
       allow_reentrant \in BOOLEAN :
        ~Has(strs, LockKey(r[1], r[2])) =>
            acquire_result(Store, r[1], r[2], A, priority, ttl_arg,
                           allow_reentrant).status
                = IF Has(strs, CancelKey(r[1], r[2], A)) THEN "cancelled"
                  ELSE "acquired"

\* C7, the case: the lease ran out while an agent was waiting (a release
\* without successor leaves no queue), and an agent that is not waiting acquires
ExpiredWithWaiters ==
    \E r \in Resources, A \in Agents :
        /\ ~Has(strs, LockKey(r[1], r[2]))
        /\ QueueIn(Store, r) # {}
        /\ A \notin QueueIn(Store, r)
        /\ acquire_result(Store, r[1], r[2], A, DefaultPriority, 0, FALSE).status
               = "acquired"

\* an idempotent release that returns `released` returns `released` again when
\* it is repeated on the store it leaves
SecondRelease ==
    \A lock_id \in LockIdArgs, agent_id \in AgentArgs :
        release_result(Store, lock_id, agent_id, TRUE).status = "released" =>
            release_result(release_eval(Store, lock_id, agent_id, TRUE),
                           lock_id, agent_id, TRUE).status = "released"

ReleaseUnknownIsError ==
    \A lock_id \in LockIdArgs :
        ~Has(hashes, MetaKey(lock_id)) =>
            /\ release_result(Store, lock_id, NoAgent, DefaultIdempotent).status
                   = "error"
            /\ Contains(release_result(Store, lock_id, NoAgent,
                                       DefaultIdempotent).message, "not found")

\* the part of a store map on the keys K
Restrict(m, K) == [k \in K \cap DOMAIN m |-> m[k]]

\* what store st holds for resource r: holder, wait queue, agent mappings,
\* cancel flags and metadata
StateOf(st, r) ==
    [holder |-> Restrict(st.strs, {LockKey(r[1], r[2])}),
     queue |-> ZSet(st.zsets, QueueKey(r[1], r[2])),
     agent_locks |-> Restrict(st.strs, {AgentLockKey(r[1], r[2], A) : A \in Agents}),
     cancels |-> Restrict(st.strs, {CancelKey(r[1], r[2], A) : A \in Agents}),
     metas |-> {st.hashes[k] : k \in {x \in DOMAIN st.hashes :
                    <<st.hashes[x].resource_type, st.hashes[x].resource_id>> = r}}]

\* C10 - Independence: for two distinct resources, every operation on the one
\* (acquire, cancel, release, extend) leaves holder, metadata, queue, agent
\* mappings and cancel flags of the other unchanged, and an acquire on a
\* resource without holder, by an agent without cancel flag on it, returns
\* `acquired` whatever the state of the other resource.
Independence ==
    \A r1, r2 \in ResourcesKeys :
        r1 # r2 =>
            /\ \A A \in Agents, priority \in Priorities, ttl_arg \in TTLArgs,
                  allow_reentrant \in BOOLEAN :
                   StateOf(acquire_eval(Store, r1[1], r1[2], A, priority, ttl_arg,
                                        allow_reentrant), r2) = StateOf(Store, r2)
            /\ \A A \in Agents :
                   StateOf(cancel_eval(Store, r1[1], r1[2], A), r2) = StateOf(Store, r2)
            /\ \A lock_id \in LockIdArgs, agent_id \in AgentArgs, idempotent \in BOOLEAN :
                   ResourceOf(Store, lock_id) = r1 =>
                       StateOf(release_eval(Store, lock_id, agent_id, idempotent), r2)
                           = StateOf(Store, r2)
            /\ \A lock_id \in LockIdArgs, agent_id \in AgentArgs,
                  additional_ttl \in ExtendArgs :
                   ResourceOf(Store, lock_id) = r1 =>
                       StateOf(extend_eval(Store, lock_id, additional_ttl, agent_id), r2)
                           = StateOf(Store, r2)
            /\ \A A \in Agents :
                   (/\ ~Has(strs, LockKey(r2[1], r2[2]))
                    /\ ~Has(strs, CancelKey(r2[1], r2[2], A)))
                       => acquire_result(Store, r2[1], r2[2], A, DefaultPriority, 0,
                                         FALSE).status = "acquired"

\* the ttl acquire_lock works with: the given one, or the engine default
TtlOf(ttl_arg) == IF ttl_arg = 0 THEN DefaultTTL ELSE ttl_arg

\* C11 - Reentrancy: whenever agent A is the value of the holder key of a
\* resource and has no cancel flag on it, a re-entrant acquire by A returns
\* `already_owned` with the lock id whose metadata references the holder key,
\* leaves the holder key, that metadata and the agent mapping of A with the
\* given ttl, and does not add A to the wait queue.
Reentrancy ==
    \A r \in Resources, A \in Agents, priority \in Priorities, ttl_arg \in TTLArgs :
        (Holds(r[1], r[2], A) /\ ~Has(strs, CancelKey(r[1], r[2], A))) =>
            LET res == acquire_result(Store, r[1], r[2], A, priority, ttl_arg, TRUE)
                out == acquire_eval(Store, r[1], r[2], A, priority, ttl_arg, TRUE)
            IN  /\ res.status = "already_owned"
                /\ MetaKey(res.lock_id) \in MetasOf(LockKey(r[1], r[2]))
                /\ out.strs[LockKey(r[1], r[2])].ttl = TtlOf(ttl_arg)
                /\ Has(out.hashes, MetaKey(res.lock_id))
                /\ out.hashes[MetaKey(res.lock_id)].ttl = TtlOf(ttl_arg)
                /\ Has(out.strs, AgentLockKey(r[1], r[2], A))
                /\ out.strs[AgentLockKey(r[1], r[2], A)].ttl = TtlOf(ttl_arg)
                /\ QueueIn(out, r) = QueueIn(Store, r)

\* no agent of the set AS has a cancel flag on r
Unflagged(r, AS) == \A A \in AS : ~Has(strs, CancelKey(r[1], r[2], A))

\* the orders in which the acquires of the agents AS can reach the store
Orders(AS) ==
    {o \in [1..Cardinality(AS) -> AS] : \A i, j \in DOMAIN o : i # j => o[i] # o[j]}

\* the store after the first n acquires of the order o, agent A asking prio[A]
RECURSIVE AfterAcquires(_, _, _, _)
AfterAcquires(n, r, o, prio) ==
    IF n = 0 THEN Store
    ELSE acquire_eval_nth(AfterAcquires(n - 1, r, o, prio), n, r[1], r[2], o[n],
                          prio[o[n]], 0, FALSE)

\* the status the n-th acquire of the order o gets
StatusOfNth(n, r, o, prio) ==
    acquire_result_nth(AfterAcquires(n - 1, r, o, prio), n, r[1], r[2], o[n],
                       prio[o[n]], 0, FALSE).status

\* C12 - Concurrent acquires: when distinct agents without cancel flags issue
\* acquire concurrently on a resource without holder, then in every order in
\* which the requests reach the store and for all priorities the first request
\* is `acquired` and every other one is `queued`.
ConcurrentAcquires ==
    \A r \in Resources, AS \in SUBSET Agents :
        (AS # {} /\ ~Has(strs, LockKey(r[1], r[2])) /\ Unflagged(r, AS)) =>
            \A o \in Orders(AS), prio \in [AS -> Priorities] :
                \A n \in DOMAIN o :
                    StatusOfNth(n, r, o, prio) = IF n = 1 THEN "acquired" ELSE "queued"

\* C12, the case: three agents asked on the free resource; "a", whose request
\* came first, holds it under the first lock id, "ab" and "b" wait with the next
\* two, and "b" waits although it asked a higher priority than the default
ThreeRaced ==
    /\ minted = 3
    /\ grants = {Grant(<<"customer", "123">>, "a", Uuid(1))}
    /\ Holds("customer", "123", "a")
    /\ QueueIn(Store, <<"customer", "123">>) = {"ab", "b"}
    /\ {Get(strs, AgentLockKey("customer", "123", B)) : B \in {"ab", "b"}}
           = {Uuid(2), Uuid(3)}
    /\ Request(<<"customer", "123">>, "b", 10) \in requests

\* the stores a status check can make its second read on when it made its first
\* on st and no release and no expiry came between: st itself, or st after an
\* acquire, a cancel or an extend
WithoutReleaseOrExpiry(st) ==
    {st}
    \cup {acquire_eval_nth(st, 2, r[1], r[2], B, priority, ttl_arg, allow_reentrant) :
             r \in Resources, B \in Agents, priority \in Priorities,
             ttl_arg \in TTLArgs, allow_reentrant \in BOOLEAN}
    \cup {cancel_eval(st, r[1], r[2], B) : r \in Resources, B \in Agents}
    \cup {extend_eval(st, lock_id, additional_ttl, agent_id) :
             lock_id \in LockIdArgs \cup {Uuid(minted + 1)},
             additional_ttl \in ExtendArgs, agent_id \in AgentArgs}

\* C13 - Acquire on a resource without holder, by an agent without cancel flag,
\* returns `acquired` with a lock id never handed out before and expires_in
\* equal to the ttl asked, or the engine default when none is asked; a status
\* check of that lock id made before any release or expiry returns `active`
\* with the acquiring agent as agent_id.
AcquireThenActive ==
    \A r \in Resources, A \in Agents, priority \in Priorities, ttl_arg \in TTLArgs,
       allow_reentrant \in BOOLEAN :
        (~Has(strs, LockKey(r[1], r[2])) /\ ~Has(strs, CancelKey(r[1], r[2], A))) =>
            LET res == acquire_result(Store, r[1], r[2], A, priority, ttl_arg,
                                      allow_reentrant)
                out == acquire_eval(Store, r[1], r[2], A, priority, ttl_arg,
                                    allow_reentrant)
            IN  /\ res.status = "acquired"
                /\ res.lock_id \notin LockIdArgs
                /\ ~Has(hashes, MetaKey(res.lock_id))
                /\ res.expires_in = IF ttl_arg = 0 THEN DefaultTTL ELSE ttl_arg
                /\ \A st \in WithoutReleaseOrExpiry(out) :
                       check_lock_status(ReadMeta(out, res.lock_id), st)
                           = StatusResult("active", A)

\* C13, the case: "b" acquired the resource under the third lock id, after two
\* earlier ids were handed out, and a status check of that id has read the
\* metadata and is about to read the lock key and return active
StatusOfAcquired ==
    /\ minted = 3
    /\ grants = {Grant(<<"customer", "123">>, "b", Uuid(3))}
    /\ checking = ReadMeta(Store, Uuid(3))
    /\ check_lock_status(checking, Store) = StatusResult("active", "b")

\* the stores a later call can find once a call left st: st itself, or st
\* after one more acquire, cancel or extend
Later(st) == WithoutReleaseOrExpiry(st)

\* C14 - Release without successor: when the valid holder releases a lock id
\* and the wait queue of its resource is empty, the release returns `released`
\* with no next_agent, the holder key, the metadata of the lock id and the
\* agent mapping of the owner are deleted, and a later status check of the
\* lock id returns `expired`.
ReleaseWithoutSuccessor ==
    \A lock_id \in LockIdArgs, agent_id \in AgentArgs, idempotent \in BOOLEAN :
        (/\ ValidRelease(Store, lock_id, agent_id)
         /\ QueueIn(Store, ResourceOf(Store, lock_id)) = {}) =>
            LET res == release_result(Store, lock_id, agent_id, idempotent)
                out == release_eval(Store, lock_id, agent_id, idempotent)
                meta == hashes[MetaKey(lock_id)]
            IN  /\ res.status = "released"
                /\ res.next_agent = Nil
                /\ ~Has(out.strs, meta.lock_key)
                /\ ~Has(out.hashes, MetaKey(lock_id))
                /\ ~Has(out.strs, AgentLockKey(meta.resource_type, meta.resource_id,
                                               meta.agent_id))
                /\ \A st1 \in Later(out) : \A st2 \in {st1, out} :
                       check_lock_status(ReadMeta(st1, lock_id), st2).status = "expired"

\* C14, the case: "b" holds the resource under the second lock id, nobody
\* waits, a status check of that id is between its reads, and the release by
\* "b" names nobody and leaves no holder key
LastHolderReleases ==
    /\ Holds("customer", "123", "b")
    /\ ValidRelease(Store, Uuid(2), "b")
    /\ QueueIn(Store, <<"customer", "123">>) = {}
    /\ checking = ReadMeta(Store, Uuid(2))
    /\ release_result(Store, Uuid(2), "b", DefaultIdempotent).next_agent = Nil
    /\ ~Has(release_eval(Store, Uuid(2), "b", DefaultIdempotent).strs,
            LockKey("customer", "123"))

\* the request agent A waits with on r once it asked with priority: the one it
\* is queued with already, or else the one it makes now
RequestOf(r, A, priority) ==
    IF A \in QueueIn(Store, r)
    THEN CHOOSE q \in WaitingIn(Store, r) : q.agent = A
    ELSE Request(r, A, priority)

\* the agents queued on r that go before request x
AheadOf(r, x) == {q \in WaitingIn(Store, r) : q.agent # x.agent /\ Ahead(q, x)}

ButFlag(st, r, A) ==
    [strs |-> Del(st.strs, CancelKey(r[1], r[2], A)), hashes |-> st.hashes,
     zsets |-> st.zsets, counter |-> st.counter]

\* what cancel(T,R,A) does to the store, with flag_detail the detail reported
\* when A is not queued
CancelOutcomeWith(flag_detail) ==
    \A r \in Resources, A \in Agents :
        LET res == cancel_result(Store, r[1], r[2], A)
            out == cancel_eval(Store, r[1], r[2], A)
        IN  /\ res.status = "cancelled"
            /\ IF A \in QueueIn(Store, r)
               THEN /\ QueueIn(out, r) = QueueIn(Store, r) \ {A}
                    /\ ~Has(out.strs, AgentLockKey(r[1], r[2], A))
                    /\ Has(out.strs, CancelKey(r[1], r[2], A))
                           = Has(strs, CancelKey(r[1], r[2], A))
                    /\ res.detail = "removed_from_queue"
               ELSE /\ ButFlag(out, r, A) = ButFlag(Store, r, A)
                    /\ Has(out.strs, CancelKey(r[1], r[2], A))
                    /\ out.strs[CancelKey(r[1], r[2], A)] = [v |-> "1", ttl |-> CancelTTL]
                    /\ res.detail = flag_detail

\* C16 - Cancel outcome: cancel(T,R,A) always returns status `cancelled`; if A
\* is in the queue of the resource it removes A from the queue, deletes the
\* agent mapping of A, creates no cancel flag and reports the detail
\* `removed_from_queue`; otherwise it changes nothing but the cancel flag of A
\* on the resource, which it creates with the short TTL, and reports the
\* detail `flag_set`.
CancelOutcome == CancelOutcomeWith("flag_set")

\* C16 - Cancel outcome, as the code has it: the same, with the detail
\* `not_in_queue_flag_set` when A is not in the queue.
CancelOutcomeAsCoded == CancelOutcomeWith("not_in_queue_flag_set")

\* the store a script leaves, without its reply
StoreOf(out) ==
    [strs |-> out.strs, hashes |-> out.hashes, zsets |-> out.zsets,
     counter |-> out.counter]

\* the store after cancel(T,R,A) was applied n times in a row
RECURSIVE CancelTimes(_, _, _)
CancelTimes(n, r, A) ==
    IF n = 0 THEN Store ELSE cancel_eval(CancelTimes(n - 1, r, A), r[1], r[2], A)

\* C17 - Cancel is idempotent, as stated: in every reachable state and for
\* every resource and agent, cancel applied twice in a row leaves the store
\* as cancel applied once leaves it, and both calls report `cancelled`.
CancelIdempotent ==
    \A r \in Resources, A \in Agents :
        /\ StoreOf(CancelTimes(2, r, A)) = StoreOf(CancelTimes(1, r, A))
        /\ cancel_result(Store, r[1], r[2], A).status = "cancelled"
        /\ cancel_result(CancelTimes(1, r, A), r[1], r[2], A).status = "cancelled"

\* C17 - Cancel is idempotent, as the code has it: both calls report
\* `cancelled`; for an agent that is not queued the second cancel leaves the
\* store as the first left it; for a queued agent the first removes it and the
\* second finds it gone and adds its cancel flag, changing nothing else; from
\* the second cancel on nothing changes any more.
CancelIdempotentUnlessQueued ==
    \A r \in Resources, A \in Agents :
        LET once == CancelTimes(1, r, A)
            twice == CancelTimes(2, r, A)
        IN  /\ cancel_result(Store, r[1], r[2], A).status = "cancelled"
            /\ cancel_result(once, r[1], r[2], A).status = "cancelled"
            /\ StoreOf(CancelTimes(3, r, A)) = StoreOf(twice)
            /\ IF A \in QueueIn(Store, r)
               THEN /\ ButFlag(twice, r, A) = ButFlag(once, r, A)
                    /\ Has(twice.strs, CancelKey(r[1], r[2], A))
                    /\ twice.strs[CancelKey(r[1], r[2], A)].ttl = CancelTTL
                    /\ Has(once.strs, CancelKey(r[1], r[2], A))
                           = Has(strs, CancelKey(r[1], r[2], A))
               ELSE StoreOf(twice) = StoreOf(once)

\* C17, the case: "b" waits behind the holder "a" and has no cancel flag; one
\* cancel by "b" leaves none, a second one leaves one
SecondCancelFlags ==
    /\ Holds("customer", "123", "a")
    /\ "b" \in QueueIn(Store, <<"customer", "123">>)
    /\ ~Has(CancelTimes(1, <<"customer", "123">>, "b").strs,
            CancelKey("customer", "123", "b"))
    /\ Has(CancelTimes(2, <<"customer", "123">>, "b").strs,
           CancelKey("customer", "123", "b"))

\* C18 - Status: a status check returns `active` only if the metadata of the
\* lock id existed at its first read and, at its second read, the holder key
\* exists with the agent_id of the metadata as value; it returns `expired`
\* when the metadata is absent, the holder key is absent or the holder key
\* carries another agent, whatever came between the two reads.
StatusActiveOnlyForHolder ==
    /\ check_lock_status(NotChecking, Store).status = "expired"
    /\ checking # NotChecking =>
           check_lock_status(checking, Store).status
               = IF /\ Has(strs, checking.lock_key)
                    /\ strs[checking.lock_key].v = checking.agent_id
                 THEN "active" ELSE "expired"

\* C19 - Cleanup is a global reset: on the store cleanup_all_locks leaves,
\* started in any reachable state, no resource has a holder key, a wait queue,
\* an agent mapping or a cancel flag, no metadata hash exists, and the count
\* returned is the number of metadata hashes there were.
CleanupResets ==
    LET out == cleanup_script(Store)
    IN  /\ \A r \in AllResources :
               /\ ~Has(out.strs, LockKey(r[1], r[2]))
               /\ QueueIn(out, r) = {}
               /\ \A A \in Agents :
                      /\ ~Has(out.strs, AgentLockKey(r[1], r[2], A))
                      /\ ~Has(out.strs, CancelKey(r[1], r[2], A))
        /\ out.hashes = Empty
        /\ cleanup_result(Store).locks_released = Cardinality(DOMAIN hashes)

\* on store st, extend_lock(lock_id, _, agent_id) passes every check: the
\* metadata exists, the caller is the recorded owner (or names nobody) and the
\* holder key carries the recorded owner
ValidExtend(st, lock_id, agent_id) == ValidRelease(st, lock_id, agent_id)

\* the error message names a check that failed on the current store
NamesFailedCheck(message, lock_id, agent_id) ==
    LET meta == hashes[MetaKey(lock_id)]
    IN  CASE message = "Lock not found" -> ~Has(hashes, MetaKey(lock_id))
          [] message = "Not lock owner" ->
                 Has(hashes, MetaKey(lock_id)) /\ agent_id \notin {NoAgent, meta.agent_id}
          [] message = "Lock expired" ->
                 Has(hashes, MetaKey(lock_id)) /\ ~Has(strs, meta.lock_key)
          [] message = "Lock ownership changed" ->
                 /\ Has(hashes, MetaKey(lock_id))
                 /\ Has(strs, meta.lock_key)
                 /\ strs[meta.lock_key].v # meta.agent_id
          [] OTHER -> FALSE

\* what extend_lock returns and leaves; with mapped, the agent mapping of the
\* owner has to be there after a successful extend
ExtendOutcome(mapped) ==
    \A lock_id \in LockIdArgs, agent_id \in AgentArgs, additional_ttl \in ExtendArgs :
        LET res == extend_result(Store, lock_id, additional_ttl, agent_id)
            out == extend_eval(Store, lock_id, additional_ttl, agent_id)
        IN  IF ValidExtend(Store, lock_id, agent_id)
            THEN LET meta == hashes[MetaKey(lock_id)]
                     agent_lock_key ==
                         AgentLockKey(meta.resource_type, meta.resource_id, meta.agent_id)
                 IN  /\ res.status = "extended"
                     /\ res.new_ttl = additional_ttl
                     /\ out.strs[meta.lock_key].ttl = additional_ttl
                     /\ out.hashes[MetaKey(lock_id)].ttl = additional_ttl
                     /\ mapped => Has(out.strs, agent_lock_key)
                     /\ Has(out.strs, agent_lock_key) =>
                            out.strs[agent_lock_key].ttl = additional_ttl
            ELSE /\ res.status = "error"
                 /\ NamesFailedCheck(res.message, lock_id, agent_id)
                 /\ StoreOf(out) = Store

\* C20 - Extend: extend_lock returns `extended` with new_ttl = additional_ttl
\* exactly when the metadata of the lock id exists, the agent given, if any, is
\* the recorded owner, and the holder key exists with the recorded owner as
\* value; it then leaves the holder key, the metadata and the agent mapping of
\* the owner with TTL additional_ttl.  In every other case it returns an error
\* that names the failed check and leaves the store as it was.
ExtendExact == ExtendOutcome(TRUE)

\* C20 - Extend, as the code has it: the same, but that a holder whose agent
\* mapping is gone has none after the extend either.
ExtendExactWhereMapped == ExtendOutcome(FALSE)

\* the metadata hashes of store st under which the holder of r holds it: those
\* that name the holder key and the agent it carries
HeldUnder(st, r) ==
    {k \in DOMAIN st.hashes :
        /\ st.hashes[k].lock_key = LockKey(r[1], r[2])
        /\ st.hashes[k].agent_id = Get(st.strs, LockKey(r[1], r[2]))}

\* in store st the holder key of r and the metadata it is held under have the
\* same time left
SameExpiry(st, r) ==
    \A k \in HeldUnder(st, r) : st.hashes[k].ttl = st.strs[LockKey(r[1], r[2])].ttl

\* C21 - Shared expiry: after every operation that sets or resets a lease (an
\* acquire, re-entrant or not, an extend, a release with handoff) the holder
\* key of the resource and the metadata hash of the lock id it is held under
\* have the same remaining TTL.
SharedExpiry ==
    \A r \in Resources :
        /\ \A A \in Agents, priority \in Priorities, ttl_arg \in TTLArgs,
              allow_reentrant \in BOOLEAN :
               SameExpiry(acquire_eval(Store, r[1], r[2], A, priority, ttl_arg,
                                       allow_reentrant), r)
        /\ \A lock_id \in LockIdArgs, agent_id \in AgentArgs,
              additional_ttl \in ExtendArgs :
               SameExpiry(extend_eval(Store, lock_id, additional_ttl, agent_id), r)
        /\ \A lock_id \in LockIdArgs, agent_id \in AgentArgs, idempotent \in BOOLEAN :
               SameExpiry(release_eval(Store, lock_id, agent_id, idempotent), r)

\* the results a call of the engine can end with on the current store, over
\* all the calls of the six operations
EngineOutcomes ==
    UNION ({Outcomes(acquire_result(Store, r[1], r[2], A, priority, ttl_arg,
                                    allow_reentrant)) :
               r \in Resources, A \in Agents, priority \in Priorities,
               ttl_arg \in TTLArgs, allow_reentrant \in BOOLEAN}
           \cup {Outcomes(release_result(Store, lock_id, agent_id, idempotent)) :
                    lock_id \in LockIdArgs, agent_id \in AgentArgs,
                    idempotent \in BOOLEAN}
           \cup {Outcomes(extend_result(Store, lock_id, additional_ttl, agent_id)) :
                    lock_id \in LockIdArgs, additional_ttl \in ExtendArgs,
                    agent_id \in AgentArgs}
           \cup {Outcomes(cancel_result(Store, r[1], r[2], A)) :
                    r \in Resources, A \in Agents}
           \cup {Outcomes(check_lock_status(ReadMeta(Store, lock_id), Store)) :
                    lock_id \in LockIdArgs}
           \cup {Outcomes(cleanup_result(Store))})

\* C22 - Engine operations never throw: every call of acquire, release,
\* extend, cancel, status or cleanup ends with a tagged result, also when the
\* store is unreachable or a script fails; no exception leaves the engine.
NeverThrows == \A o \in EngineOutcomes : o.status # "exception"

\* C23 - Key namespaces do not collide: for distinct resources the holder keys
\* and the queue keys are distinct, and for distinct combinations of resource
\* and agent the agent-mapping keys and the cancel keys are distinct, also when
\* resource type or id contain the delimiter ':'; so an agent that acquires one
\* resource is not thereby the holder of another.
KeyNamespaces ==
    /\ \A r1, r2 \in ResourcesColon :
           r1 # r2 =>
               /\ LockKey(r1[1], r1[2]) # LockKey(r2[1], r2[2])
               /\ QueueKey(r1[1], r1[2]) # QueueKey(r2[1], r2[2])
               /\ \A A \in AgentsPair :
                      Holds(r1[1], r1[2], A) /\ Holds(r2[1], r2[2], A) =>
                          \E g1, g2 \in grants : g1.res = r1 /\ g2.res = r2
    /\ \A c1, c2 \in ResourcesColon \X AgentsPair :
           c1 # c2 =>
               /\ AgentLockKey(c1[1][1], c1[1][2], c1[2])
                      # AgentLockKey(c2[1][1], c2[1][2], c2[2])
               /\ CancelKey(c1[1][1], c1[1][2], c1[2])
                      # CancelKey(c2[1][1], c2[1][2], c2[2])

\* C24 - SDK waiter protocol: a client acquire with wait=true that is answered
\* `queued` subscribes to the grant channel of the resource and then either
\* returns `acquired` with the lock id of a grant that was made to its own
\* agent id or, when the timeout comes first, issues a cancel and only then
\* raises the timeout error.
SdkWaiterProtocol ==
    /\ waiter.pc = "waiting" =>
           waiter.channel = GrantChannel(LockKey(waiter.res[1], waiter.res[2]))
    /\ waiter.pc = "acquired" =>
           waiter.sent_to = waiter.agent /\ waiter.lock_id = waiter.sent_id
    /\ waiter.pc = "raise" => waiter.cancel_issued

\* what the client does instead: it returns the text after the first ':' of a
\* payload that begins with its agent id and ':', which is the granted lock id
\* when the grant was made to its agent id; the rest is as in SdkWaiterProtocol
SdkWaiterProtocolByPrefix ==
    /\ waiter.pc = "waiting" =>
           waiter.channel = GrantChannel(LockKey(waiter.res[1], waiter.res[2]))
    /\ waiter.pc = "acquired" =>
           /\ StartsWith(waiter.data, waiter.agent \o ":")
           /\ waiter.lock_id = AfterFirstColon(waiter.data)
           /\ waiter.sent_to = waiter.agent => waiter.lock_id = waiter.sent_id
    /\ waiter.pc = "raise" => waiter.cancel_issued

\* the client returns the lock id of a grant made to it
SdkGranted ==
    /\ waiter.pc = "acquired"
    /\ waiter.sent_to = waiter.agent
    /\ Holds(waiter.res[1], waiter.res[2], waiter.agent)

\* every way of calling acquire for one agent and one resource
AcquireArgs == Priorities \X TTLArgs \X BOOLEAN

\* C25 - Tombstone consumption: when the cancel flag of A on (T,R) exists,
\* acquire(T,R,A) returns `cancelled`, deletes the flag and changes nothing
\* else, whether the resource is free or not; the next acquire by A is
\* processed as on a store that never had the flag, so it obtains a free lock.
TombstoneConsumption ==
    \A r \in Resources, A \in Agents, args \in AcquireArgs :
        Has(strs, CancelKey(r[1], r[2], A)) =>
            LET out == acquire_eval(Store, r[1], r[2], A, args[1], args[2], args[3])
                res == acquire_result(Store, r[1], r[2], A, args[1], args[2], args[3])
                after == StoreOf(out)
            IN  /\ res = AcquireResult("cancelled", Nil, 0, 0)
                /\ after = ButFlag(Store, r, A)
                /\ out.pub = <<>>
                /\ \A next \in AcquireArgs :
                       LET again == acquire_result(after, r[1], r[2], A,
                                                   next[1], next[2], next[3])
                       IN  /\ again.status \in {"acquired", "queued", "already_owned", "error"}
                           /\ ~Has(strs, LockKey(r[1], r[2])) => again.status = "acquired"
                           /\ again.status = "error" => Holds(r[1], r[2], A)

\* an agent is flagged while the resource is free and another agent has a
\* pending lock id on it
FlaggedOnFreeResource ==
    \E r \in Resources, A \in Agents :
        /\ Has(strs, CancelKey(r[1], r[2], A))
        /\ ~Has(strs, LockKey(r[1], r[2]))
        /\ \E B \in Agents \ {A} : Has(strs, AgentLockKey(r[1], r[2], B))

\* C26 - Non-reentrant re-acquire: when A is the current holder of (T,R), has
\* no cancel flag and calls acquire with reentrant=false, the result is the
\* error and the whole store is unchanged: holder, TTLs, metadata, queue and
\* agent mappings.
NonReentrantReacquire ==
    \A r \in Resources, A \in Agents, priority \in Priorities, ttl_arg \in TTLArgs :
        Holds(r[1], r[2], A) /\ ~Has(strs, CancelKey(r[1], r[2], A)) =>
            LET out == acquire_eval(Store, r[1], r[2], A, priority, ttl_arg, FALSE)
                res == acquire_result(Store, r[1], r[2], A, priority, ttl_arg, FALSE)
            IN  /\ res = AcquireResult("error", Nil, 0, 0)
                /\ StoreOf(out) = Store
                /\ out.pub = <<>>

\* an unflagged holder whose remaining lease is below the default TTL, with
\* another agent waiting
ShortLeaseHolderWithWaiter ==
    \E r \in Resources, A \in Agents :
        /\ Holds(r[1], r[2], A)
        /\ ~Has(strs, CancelKey(r[1], r[2], A))
        /\ strs[LockKey(r[1], r[2])].ttl < DefaultTTL
        /\ ZMembers(zsets, QueueKey(r[1], r[2])) \ {A} # {}

\* C27 - Repeated acquire by a queued agent: when A is already in the queue of
\* (T,R) and the lock is held by another agent, a further acquire(T,R,A) with
\* any priority leaves the queue as it is, returns `queued` with A's one-based
\* rank, and changes nothing but A's pending lock id, which becomes the newly
\* minted one.
RepeatedAcquireByQueued ==
    \A r \in Resources, A \in Agents, args \in AcquireArgs :
        /\ A \in ZMembers(zsets, QueueKey(r[1], r[2]))
        /\ Has(strs, LockKey(r[1], r[2]))
        /\ ~Holds(r[1], r[2], A)
        => LET out == acquire_eval(Store, r[1], r[2], A, args[1], args[2], args[3])
               res == acquire_result(Store, r[1], r[2], A, args[1], args[2], args[3])
               lock_id == Uuid(minted + 1)
           IN  /\ out.zsets = zsets
               /\ Cardinality({x \in ZSet(out.zsets, QueueKey(r[1], r[2])) : x.m = A}) = 1
               /\ res = AcquireResult("queued", lock_id,
                                      get_queue_position(Store, r[1], r[2], A), 0)
               /\ out.hashes = hashes
               /\ out.counter = lock_id_counter
               /\ out.pub = <<>>
               /\ Del(out.strs, AgentLockKey(r[1], r[2], A))
                      = Del(strs, AgentLockKey(r[1], r[2], A))
               /\ out.strs[AgentLockKey(r[1], r[2], A)].v = lock_id

\* an agent waits second in the queue with the lower priority while another
\* agent holds the lock: a repeated request with the higher priority would
\* move it if the queue took the new score
QueuedSecond ==
    \E r \in Resources, A \in Agents :
        /\ A \in ZMembers(zsets, QueueKey(r[1], r[2]))
        /\ Has(strs, LockKey(r[1], r[2]))
        /\ ~Holds(r[1], r[2], A)
        /\ get_queue_position(Store, r[1], r[2], A) = 2
        /\ ZEntry(zsets, QueueKey(r[1], r[2]), A).s = -DefaultPriority

\* C28 - Atomic handoff: a release by the valid holder with a non-empty queue
\* transfers the lock to the successor in the one store step the release is:
\* in the state it leaves the holder key exists with the successor as value,
\* so no acquire of another agent that comes next obtains the lock.
AtomicHandoff ==
    \A lock_id \in LockIdArgs, agent_id \in AgentArgs, idempotent \in BOOLEAN :
        (/\ ValidRelease(Store, lock_id, agent_id)
         /\ QueueIn(Store, ResourceOf(Store, lock_id)) # {}) =>
            LET r == ResourceOf(Store, lock_id)
                res == release_result(Store, lock_id, agent_id, idempotent)
                out == release_eval(Store, lock_id, agent_id, idempotent)
                after == StoreOf(out)
            IN  /\ res.status = "released"
                /\ res.next_agent = ZMin(zsets, QueueKey(r[1], r[2])).m
                /\ Has(out.strs, LockKey(r[1], r[2]))
                /\ out.strs[LockKey(r[1], r[2])].v = res.next_agent
                /\ \A C \in Agents \ {res.next_agent}, args \in AcquireArgs :
                       acquire_result(after, r[1], r[2], C, args[1], args[2], args[3]).status
                           # "acquired"

\* the holder can release with one agent waiting and a third agent, neither
\* holder nor waiter nor flagged, ready to acquire
HandoffWithBystander ==
    \E lock_id \in LockIdArgs, C \in Agents :
        /\ ValidRelease(Store, lock_id, NoAgent)
        /\ QueueIn(Store, ResourceOf(Store, lock_id)) # {}
        /\ C \notin QueueIn(Store, ResourceOf(Store, lock_id))
        /\ C # hashes[MetaKey(lock_id)].agent_id
        /\ ~Has(strs, CancelKey(ResourceOf(Store, lock_id)[1], ResourceOf(Store, lock_id)[2], C))

\* the release of lock_id hands the lock to a successor whose agent mapping exists
HandsOver(lock_id, agent_id, idempotent) ==
    /\ ValidRelease(Store, lock_id, agent_id)
    /\ release_result(Store, lock_id, agent_id, idempotent).next_agent # Nil
    /\ Has(strs, AgentLockKey(ResourceOf(Store, lock_id)[1], ResourceOf(Store, lock_id)[2],
                              release_result(Store, lock_id, agent_id, idempotent).next_agent))

\* C29 - Handoff lock id: when release hands the lock to successor N whose
\* agent mapping exists, the next_lock_id it returns, publishes and stores in
\* the new metadata is the lock id of the last `queued` answer to N on the
\* resource, and the lease of N is the engine default TTL.
HandoffLockId ==
    \A lock_id \in LockIdArgs, agent_id \in AgentArgs, idempotent \in BOOLEAN :
        HandsOver(lock_id, agent_id, idempotent) =>
            LET r == ResourceOf(Store, lock_id)
                res == release_result(Store, lock_id, agent_id, idempotent)
                out == release_eval(Store, lock_id, agent_id, idempotent)
                N == res.next_agent
            IN  /\ Pending(r, N, res.next_lock_id) \in pending
                /\ out.pub = <<[channel |-> GrantChannel(LockKey(r[1], r[2])),
                                payload |-> N \o ":" \o res.next_lock_id]>>
                /\ Has(out.hashes, MetaKey(res.next_lock_id))
                /\ out.hashes[MetaKey(res.next_lock_id)].lock_id = res.next_lock_id
                /\ out.hashes[MetaKey(res.next_lock_id)].agent_id = N
                /\ out.hashes[MetaKey(res.next_lock_id)].ttl = DefaultTTL
                /\ out.strs[LockKey(r[1], r[2])] = [v |-> N, ttl |-> DefaultTTL]

\* C30 - Grant notification: a release publishes if and only if it performs a
\* handoff, then exactly one event on the channel of the resource with the
\* payload next_agent:next_lock_id of its result; acquire, extend, cancel and a
\* release without successor publish nothing.
GrantNotification ==
    /\ \A lock_id \in LockIdArgs, agent_id \in AgentArgs, idempotent \in BOOLEAN :
           LET res == release_result(Store, lock_id, agent_id, idempotent)
               out == release_eval(Store, lock_id, agent_id, idempotent)
               r == ResourceOf(Store, lock_id)
           IN  IF res.status = "released" /\ res.next_agent # Nil
               THEN out.pub = <<[channel |-> SdkChannel(r[1], r[2]),
                                 payload |-> res.next_agent \o ":" \o res.next_lock_id]>>
               ELSE out.pub = <<>>
    /\ \A r \in Resources, A \in Agents :
           /\ \A args \in AcquireArgs :
                  acquire_eval(Store, r[1], r[2], A, args[1], args[2], args[3]).pub = <<>>
           /\ cancel_eval(Store, r[1], r[2], A).pub = <<>>
    /\ \A lock_id \in LockIdArgs, additional_ttl \in ExtendArgs, agent_id \in AgentArgs :
           extend_eval(Store, lock_id, additional_ttl, agent_id).pub = <<>>

\* the holder can release to a waiter other than itself whose agent mapping
\* exists, while the acquires, cancels and extends that can come instead of the
\* release publish nothing
HandoffToWaiter ==
    \E lock_id \in LockIdArgs :
        /\ HandsOver(lock_id, NoAgent, TRUE)
        /\ release_result(Store, lock_id, NoAgent, TRUE).next_agent
               # hashes[MetaKey(lock_id)].agent_id

\* C31 - Release by a non-owner: release(L, A) with an agent id A that differs
\* from the owner recorded in the metadata of L returns the error "not owner"
\* in idempotent and in non-idempotent mode and leaves the whole store as it
\* is: holder key, metadata, queue, agent mappings and cancel flags.
ReleaseByNonOwner ==
    \A lock_id \in LockIdArgs, agent_id \in Agents, idempotent \in BOOLEAN :
        (/\ Has(hashes, MetaKey(lock_id))
         /\ agent_id # hashes[MetaKey(lock_id)].agent_id) =>
            LET res == release_result(Store, lock_id, agent_id, idempotent)
                out == release_eval(Store, lock_id, agent_id, idempotent)
            IN  /\ res.status = "error"
                /\ res.message = "Permission denied: not lock owner"
                /\ StoreOf(out) = Store
                /\ out.pub = <<>>

\* a lock id is held with a waiter in the queue, so that a release by the
\* waiter under the holder's lock id would hand the lock over if it were let
NonOwnerCouldRelease ==
    \E lock_id \in LockIdArgs, agent_id \in Agents :
        /\ ValidRelease(Store, lock_id, NoAgent)
        /\ agent_id # hashes[MetaKey(lock_id)].agent_id
        /\ agent_id \in QueueIn(Store, ResourceOf(Store, lock_id))

\* the metadata of lock_id exists in st and the holder key it names is absent
\* or holds an agent other than the recorded owner
LostLock(st, lock_id) ==
    /\ Has(st.hashes, MetaKey(lock_id))
    /\ \/ ~Has(st.strs, st.hashes[MetaKey(lock_id)].lock_key)
       \/ st.strs[st.hashes[MetaKey(lock_id)].lock_key].v
              # st.hashes[MetaKey(lock_id)].agent_id

\* C32 - Release of a lost lock: when the metadata of L exists but the holder
\* key is absent or holds an agent other than the recorded owner, release by
\* the owner or without agent id deletes the metadata of L and the owner's
\* agent mapping, touches neither the holder key nor the queue, and returns
\* `released` in idempotent mode and the error "expired" otherwise.
ReleaseOfLostLock ==
    \A lock_id \in LockIdArgs, agent_id \in AgentArgs, idempotent \in BOOLEAN :
        (/\ LostLock(Store, lock_id)
         /\ agent_id \in {NoAgent, hashes[MetaKey(lock_id)].agent_id}) =>
            LET meta == hashes[MetaKey(lock_id)]
                res == release_result(Store, lock_id, agent_id, idempotent)
                out == release_eval(Store, lock_id, agent_id, idempotent)
            IN  /\ out.hashes = Del(hashes, MetaKey(lock_id))
                /\ out.strs = Del(strs, AgentLockKey(meta.resource_type, meta.resource_id,
                                                     meta.agent_id))
                /\ out.zsets = zsets
                /\ out.pub = <<>>
                /\ IF idempotent
                   THEN res.status = "released" /\ res.next_agent = Nil
                   ELSE res.status = "error" /\ res.message = "Lock expired before release"

\* the store st one time unit later
Aged(st) ==
    [strs |-> Age(st.strs), hashes |-> Age(st.hashes), zsets |-> st.zsets,
     counter |-> st.counter]

\* the stores that release, cancel and extend calls make of st
WithoutAcquire(st) ==
    {StoreOf(release_eval(st, lock_id, agent_id, idempotent)) :
         lock_id \in LockIdArgs, agent_id \in AgentArgs, idempotent \in BOOLEAN}
    \cup {StoreOf(cancel_eval(st, r[1], r[2], B)) : r \in Resources, B \in Agents}
    \cup {StoreOf(extend_eval(st, lock_id, additional_ttl, agent_id)) :
             lock_id \in LockIdArgs, additional_ttl \in ExtendArgs, agent_id \in AgentArgs}
    \cup {Aged(st)}

\* C33 - Expiry keeps the queue and grants nobody: when the lease of the
\* holder of (T,R) expires with agents waiting, the queue is as before and
\* the resource has no holder; no release, cancel, extend or further passage
\* of time gives it one; and the acquire of an agent that is not queued and
\* not flagged obtains the lock while every waiter stays in the queue.
ExpiryKeepsQueue ==
    \A r \in Resources :
        (/\ Has(strs, LockKey(r[1], r[2]))
         /\ strs[LockKey(r[1], r[2])].ttl = 1
         /\ QueueIn(Store, r) # {}) =>
            LET expired == Aged(Store)
            IN  /\ ~Has(expired.strs, LockKey(r[1], r[2]))
                /\ expired.zsets = zsets
                /\ \A st \in WithoutAcquire(expired) : ~Has(st.strs, LockKey(r[1], r[2]))
                /\ \A C \in Agents \ QueueIn(Store, r), args \in AcquireArgs :
                       ~Has(strs, CancelKey(r[1], r[2], C)) =>
                           LET out == acquire_eval(expired, r[1], r[2], C,
                                                   args[1], args[2], args[3])
                           IN  /\ acquire_result(expired, r[1], r[2], C, args[1], args[2],
                                                 args[3]).status = "acquired"
                               /\ out.strs[LockKey(r[1], r[2])].v = C
                               /\ out.zsets = zsets

\* the lease of a holder is about to run out while another agent waits
LeaseRunsOutWithWaiter ==
    \E r \in Resources :
        /\ Has(strs, LockKey(r[1], r[2]))
        /\ strs[LockKey(r[1], r[2])].ttl = 1
        /\ QueueIn(Store, r) \ {strs[LockKey(r[1], r[2])].v} # {}

\* the grant made to agent Y resolves the wait of the client of agent X
Resolves(X, Y) == Y = X \/ StartsWith(Y, X \o ":")

\* C34 - Grant filtering in the SDK: a waiting client resolves its wait only
\* on a grant event whose agent id is exactly its own; a grant published for
\* another agent never makes it return `acquired`.
GrantFiltering ==
    /\ waiter.pc = "acquired" => waiter.sent_to = waiter.agent
    /\ waiter.pc = "waiting" =>
           \A i \in DOMAIN waiter.inbox :
               Listened(waiter, waiter.inbox[i]).pc = "acquired"
                   <=> waiter.inbox[i].sent_to = waiter.agent

\* what the client does instead: the grants that resolve its wait are those of
\* its own agent id and of the agent ids that begin with its own and ':'
GrantFilteringByPrefix ==
    /\ waiter.pc = "acquired" => Resolves(waiter.agent, waiter.sent_to)
    /\ waiter.pc = "waiting" =>
           \A i \in DOMAIN waiter.inbox :
               LET m == waiter.inbox[i]
               IN  /\ m.data = m.sent_to \o ":" \o m.sent_id
                   /\ Listened(waiter, m).pc = "acquired"
                          <=> Resolves(waiter.agent, m.sent_to)

\* the waiting client has received the grant of an agent whose id has nothing
\* of its own, and is about to read it
ForeignGrantReceived ==
    /\ waiter.pc = "waiting"
    /\ waiter.inbox # <<>>
    /\ ~Resolves(waiter.agent, Head(waiter.inbox).sent_to)

\* C35 - After a client acquire with wait=true has raised its timeout error,
\* the cancel having been issued first, the agent of the client is neither the
\* holder of the resource nor in its queue, however the release of the holder
\* interleaves with the answer to the acquire, the subscription, the timeout
\* and the cancel. Stated for the cancels that reached the engine, which the
\* tombstone they left shows: a grant published between the `queued` answer
\* and the subscription must not leave the lock with the agent that failed.
FailureLeavesNothing ==
    (/\ waiter.pc = "raise"
     /\ Has(strs, CancelKey(waiter.res[1], waiter.res[2], waiter.agent))) =>
        /\ ~Holds(waiter.res[1], waiter.res[2], waiter.agent)
        /\ waiter.agent \notin QueueIn(Store, waiter.res)

\* C36 - Queue key agreement: for every resource, the queue key release and
\* cleanup derive by substitution from the lock_key of a metadata record is the
\* key acquire and cancel build from the type and id of the resource, also for
\* a resource type that contains the text "lock:" once the ':' is appended.
QueueKeyAgreement ==
    \A r \in ResourcesKeys :
        \A k \in MetasOf(LockKey(r[1], r[2])) :
            QueueKeyOfLockKey(hashes[k].lock_key) = QueueKey(r[1], r[2])

\* C37 - Release really releases: after release(L) by the holder A of the
\* outstanding grant under L returns `released`, the holder of the resource is
\* another agent or none, and the next_agent returned is never A.
ReleaseReallyReleases ==
    \A g \in grants, idempotent \in BOOLEAN :
        (/\ ValidRelease(Store, g.lock_id, g.agent)
         /\ release_result(Store, g.lock_id, g.agent, idempotent).status = "released") =>
            LET out == release_eval(Store, g.lock_id, g.agent, idempotent)
                res == release_result(Store, g.lock_id, g.agent, idempotent)
                lock_key == LockKey(g.res[1], g.res[2])
            IN  /\ Has(out.strs, lock_key) => out.strs[lock_key].v # g.agent
                /\ res.next_agent # g.agent

\* no grant under lock_id is outstanding: every grant made under it has ended,
\* by a release or by the expiry of the lease
Stale(lock_id) == \A g \in grants : g.lock_id # lock_id

\* the entry of key k in the map m, Nil when there is none
Entry(m, k) == IF Has(m, k) THEN <<m[k]>> ELSE <<>>

\* the script result out left the holder of r, the lease of the holder, the
\* metadata of the outstanding grants and the wait queues as they are
HolderUntouched(out, r) ==
    /\ Entry(out.strs, LockKey(r[1], r[2])) = Entry(strs, LockKey(r[1], r[2]))
    /\ \A g \in GrantsOn(r) :
           Entry(out.hashes, MetaKey(g.lock_id)) = Entry(hashes, MetaKey(g.lock_id))
    /\ out.zsets = zsets

\* C38 - A stale lock id is powerless: once a lock id has been released, with
\* or without handoff, or its lease has expired, a later release or extend
\* with it, in any mode, changes neither the current holder, nor the TTL of
\* the holder, nor the metadata of the current holder, nor the wait queue.
StaleLockIdPowerless ==
    \A lock_id \in LockIdArgs, agent_id \in AgentArgs, r \in Resources :
        Stale(lock_id) =>
            /\ \A idempotent \in BOOLEAN :
                   HolderUntouched(release_eval(Store, lock_id, agent_id, idempotent), r)
            /\ \A additional_ttl \in ExtendArgs :
                   HolderUntouched(extend_eval(Store, lock_id, additional_ttl, agent_id), r)

\* the entries of the wait queue of r
Waiters(r) == ZSet(zsets, QueueKey(r[1], r[2]))

\* a step that takes an agent out of the queue of r takes one, one that no
\* waiter precedes by priority, and makes it the holder of r
OnePerReleaseInOrder(r) ==
    LET before == Waiters(r)
        after == ZSet(zsets', QueueKey(r[1], r[2]))
    IN  (after # before /\ ~(before \subseteq after)) =>
            \E x \in before :
                /\ after = before \ {x}
                /\ \A y \in before : x.s <= y.s
                /\ Has(strs', LockKey(r[1], r[2]))
                /\ strs'[LockKey(r[1], r[2])].v = x.m

\* C39 - Queue drains under explicit release: when no lease expires, no cancel
\* is issued and every holder eventually releases its lock, every agent queued
\* on a resource eventually becomes its holder, one per release and in priority
\* order, and once no new acquire arrives the queue becomes and stays empty.
QueueDrains ==
    /\ \A r \in Resources, A \in Agents :
           (A \in QueueIn(Store, r)) ~> Holds(r[1], r[2], A)
    /\ [][\A r \in Resources : OnePerReleaseInOrder(r)]_vars
    /\ \A r \in Resources : <>[](QueueIn(Store, r) = {})

\* two agents wait, with different priorities, for the lock a third holds
TwoWaitBehindHolder ==
    \E r \in Resources :
        \E x, y \in Waiters(r) :
            /\ x.s < y.s
            /\ \E g \in GrantsOn(r) : g.agent \notin {x.m, y.m}

====
